---------------------------- MODULE Spec2Model ----------------------------
(***************************************************************************)
(* A model of OGRe's Twitter source (src/ogre/twitter.py): the query       *)
(* sanitizer, the rate-limit gate, the pagination loop of fetch and the    *)
(* conversion of a tweet into a GeoJSON Feature.                           *)
(*                                                                         *)
(* Conventions                                                             *)
(*  - A Python value that may be None is a sequence of length <= 1:        *)
(*    None is <<>> and a present value v is <<v>>.                         *)
(*  - A Python string is a sequence of symbols; " " is the whitespace      *)
(*    symbol, every other symbol stands for a run of non-blank text.       *)
(*  - A timestamp is an integer number of thirds of a millisecond, so      *)
(*    that round(timestamp * 1000) is not the identity and never meets an  *)
(*    exact half.                                                          *)
(***************************************************************************)
EXTENDS Integers, Sequences, FiniteSets, TLC

(***************************************************************************)
(* Bounds of the model.                                                    *)
(***************************************************************************)
MaxQuantity == 2        \* small quantities requested: 0..MaxQuantity
MaxQueries == 2         \* caller-supplied max_queries: -1..MaxQueries
MaxRemaining == 2       \* 'remaining' reported by the provider: -1..MaxRemaining
MaxPageLen == 2         \* number of statuses a search response carries
MaxPad == 1             \* whitespace symbols before and after a keyword
MaxTick == 3            \* milliseconds before and after the epoch of the codec
MaxEntities == 2        \* number of media entities a tweet carries
MaxSources == 3         \* number of source names handed to the facade

(***************************************************************************)
(* Program constants.                                                      *)
(***************************************************************************)
PAGE_CAP == 100         \* twitter.py:184, "Twitter accepts a max count of 100."
SNOWFLAKE_SHIFT == 22   \* twitter.py:40 and :45
\* twitter.py:40 and :45 use 1288834974657; the model keeps identifiers
\* within the integers of the model checker by using a smaller epoch.
SNOWFLAKE_EPOCH == 1000

None == <<>>
Some(v) == <<v>>
IsNone(o) == o = <<>>
Get(o) == o[1]

Min(a, b) == IF a <= b THEN a ELSE b
Max(a, b) == IF a >= b THEN a ELSE b

RECURSIVE Pow2(_)
Pow2(n) == IF n = 0 THEN 1 ELSE 2 * Pow2(n - 1)

(***************************************************************************)
(* str.strip(): drop the leading and the trailing whitespace symbols.      *)
(***************************************************************************)
RECURSIVE lstrip(_)
lstrip(s) == IF s # <<>> /\ Head(s) = " " THEN lstrip(Tail(s)) ELSE s

RECURSIVE rstrip(_)
rstrip(s) ==
    IF s # <<>> /\ s[Len(s)] = " " THEN rstrip(SubSeq(s, 1, Len(s) - 1)) ELSE s

strip(s) == rstrip(lstrip(s))

\* str.lower() on the names of the model: entity types, media, units and
\* source names
Lower(s) ==
    CASE s = "Photo" -> "photo"
      [] s = "Image" -> "image"
      [] s = "KM" -> "km"
      [] s = "Twitter" -> "twitter"
      [] OTHER -> s

(***************************************************************************)
(* ogre.twitter: the ID/time codec.                                        *)
(***************************************************************************)
\* int(round(timestamp * 1000)) for a timestamp in thirds of a millisecond
RoundMs(timestamp) == (timestamp + 1) \div 3

snowflake_id(timestamp) ==
    (RoundMs(timestamp) - SNOWFLAKE_EPOCH) * Pow2(SNOWFLAKE_SHIFT)

\* a decoder that forgets the epoch
timestamp_from_snowflake_id_ForgetsEpoch(id) == id \div Pow2(SNOWFLAKE_SHIFT)

\* the result is a float of seconds; the model keeps it in milliseconds
timestamp_from_snowflake_id(id) ==
    (id \div Pow2(SNOWFLAKE_SHIFT)) + SNOWFLAKE_EPOCH

(***************************************************************************)
(* ogre.twitter: the query sanitizer.                                      *)
(***************************************************************************)
QUERY_MEDIA == {"image", "text"}

twitter_geocode_from_location(location) ==
    <<location.latitude, ",", location.longitude, ",",
      location.radius, location.unit>>

\* the hint appended to the keyword when exactly one medium remains
MediaHint(media) ==
    IF media = {"image"} THEN <<" ", "pic.twitter.com">>
    ELSE IF media = {"text"} THEN <<" ", "-pic.twitter.com">>
    ELSE <<>>

\* a filter that lets every requested medium through
SanitizedMedia_KeepsAll(query) == query.media

\* twitter.py:73; a tuple of media is modelled by the set of its elements,
\* which is what set(query.media) makes of it
SanitizedMedia(query) == query.media \cap QUERY_MEDIA

\* a keyword that is not trimmed after the hint is appended
SanitizedKeyword_NoStrip(query) ==
    query.keyword \o MediaHint(SanitizedMedia(query))

\* twitter.py:75-81
SanitizedKeyword(query) ==
    strip(query.keyword \o MediaHint(SanitizedMedia(query)))

\* a geocode that is built whatever the radius is
SanitizedGeocode_AnyRadius(query) ==
    IF ~IsNone(query.location)
    THEN Some(twitter_geocode_from_location(Get(query.location)))
    ELSE None

\* twitter.py:83-85
SanitizedGeocode(query) ==
    IF ~IsNone(query.location) /\ Get(query.location).radius > 0
    THEN Some(twitter_geocode_from_location(Get(query.location)))
    ELSE None

\* a check that forgets the keyword made of the exclusion hint alone
SanitizeRaises_OnlyEmpty(query) ==
    /\ SanitizedKeyword(query) = <<>>
    /\ IsNone(SanitizedGeocode(query))

\* twitter.py:87, the condition of the ValueError
SanitizeRaises(query) ==
    /\ SanitizedKeyword(query) \in {<<>>, <<"-pic.twitter.com">>}
    /\ IsNone(SanitizedGeocode(query))

\* a sanitizer that takes the lower bound from the end of the interval and
\* the upper bound from its start
twitter_query_from_query_SwapsBounds(query) ==
    [media    |-> SanitizedMedia(query),
     keyword  |-> SanitizedKeyword(query),
     quantity |-> query.quantity,
     location |-> query.location,
     interval |-> query.interval,
     geocode  |-> SanitizedGeocode(query),
     since_id |-> IF IsNone(query.interval) THEN None
                  ELSE Some(snowflake_id(Get(query.interval).latest)),
     max_id   |-> IF IsNone(query.interval) THEN None
                  ELSE Some(snowflake_id(Get(query.interval).earliest))]

\* a sanitizer that puts the bounds of the interval in ascending order
twitter_query_from_query_SortsBounds(query) ==
    [media    |-> SanitizedMedia(query),
     keyword  |-> SanitizedKeyword(query),
     quantity |-> query.quantity,
     location |-> query.location,
     interval |-> query.interval,
     geocode  |-> SanitizedGeocode(query),
     since_id |-> IF IsNone(query.interval) THEN None
                  ELSE Some(snowflake_id(Min(Get(query.interval).earliest,
                                             Get(query.interval).latest))),
     max_id   |-> IF IsNone(query.interval) THEN None
                  ELSE Some(snowflake_id(Max(Get(query.interval).earliest,
                                             Get(query.interval).latest)))]

\* twitter.py:68-99, the TwitterQuery returned when nothing is raised
twitter_query_from_query(query) ==
    [media    |-> SanitizedMedia(query),
     keyword  |-> SanitizedKeyword(query),
     quantity |-> query.quantity,
     location |-> query.location,
     interval |-> query.interval,
     geocode  |-> SanitizedGeocode(query),
     since_id |-> IF IsNone(query.interval) THEN None
                  ELSE Some(snowflake_id(Get(query.interval).earliest)),
     max_id   |-> IF IsNone(query.interval) THEN None
                  ELSE Some(snowflake_id(Get(query.interval).latest))]


(***************************************************************************)
(* The validators of ogre.objects, of ogre.validation and of ogre.twitter. *)
(* A validator returns "ok" (Python: None) or the name of the exception it *)
(* raises.  Latitudes, longitudes, radii and interval bounds are integers; *)
(* the quantity a validator is given is a number of halves, so that int()  *)
(* is not the identity.                                                    *)
(***************************************************************************)
\* int(x) for a number x given in halves: truncation towards zero
IntOfHalves(h) == IF h >= 0 THEN h \div 2 ELSE -((-h) \div 2)

\* a request whose quantity is a whole number, as the validators read it
InHalves(query) == [query EXCEPT !.quantity = 2 * @]

OBJECTS_QUERY_MEDIA == {"image", "sound", "text", "video"}

\* a check of the signs that leaves out the order of the bounds
objects_validate_interval_SignsOnly(interval) ==
    IF 0 <= interval.earliest /\ 0 <= interval.latest
    THEN "ok" ELSE "AssertionError"

\* objects.py:9-12
objects_validate_interval(interval) ==
    IF 0 <= interval.earliest /\ interval.earliest <= interval.latest
    THEN "ok" ELSE "AssertionError"

\* objects.py:18-24
objects_validate_location(location) ==
    IF /\ -90 <= location.latitude /\ location.latitude <= 90
       /\ -180 <= location.longitude /\ location.longitude <= 180
       /\ location.radius > 0
       /\ location.unit \in {"km", "mi"}
    THEN "ok" ELSE "AssertionError"

\* objects.py:32-41
objects_validate_query(query) ==
    IF \E medium \in query.media : medium \notin OBJECTS_QUERY_MEDIA
    THEN "AssertionError"
    ELSE IF ~(IntOfHalves(query.quantity) >= 0) THEN "AssertionError"
    ELSE IF ~IsNone(query.location)
            /\ objects_validate_location(Get(query.location)) # "ok"
    THEN objects_validate_location(Get(query.location))
    ELSE IF ~IsNone(query.interval)
    THEN objects_validate_interval(Get(query.interval))
    ELSE "ok"

\* validation.py:15-23: the order of the bounds is not looked at
validation_validate_interval(interval) ==
    IF interval.earliest >= 0 /\ interval.latest >= 0
    THEN "ok" ELSE "AssertionError"

\* validation.py:29-42: line 36 compares the latitude with the bounds of
\* the longitude
validation_validate_location(location) ==
    IF /\ -90 <= location.latitude /\ location.latitude <= 90
       /\ -180 <= location.latitude /\ location.latitude <= 180
       /\ location.radius > 0
       /\ location.unit \in {"km", "mi"}
    THEN "ok" ELSE "AssertionError"

\* validation.py:48-62: line 51 is all() of a list of True, one for every
\* medium that is known, which holds for every media
validation_validate_query(query) ==
    IF ~(\A medium \in {m \in query.media : m \in OBJECTS_QUERY_MEDIA} : TRUE)
    THEN "AssertionError"
    ELSE IF ~(query.quantity >= 0) THEN "AssertionError"
    ELSE IF ~IsNone(query.location)
            /\ validation_validate_location(Get(query.location)) # "ok"
    THEN validation_validate_location(Get(query.location))
    ELSE IF ~IsNone(query.interval)
    THEN validation_validate_interval(Get(query.interval))
    ELSE "ok"

\* twitter.py:55-65
validate_twitter_query(tquery) ==
    IF objects_validate_query(
          [media |-> tquery.media, keyword |-> tquery.keyword,
           quantity |-> tquery.quantity, location |-> tquery.location,
           interval |-> tquery.interval]) # "ok"
    THEN "AssertionError"
    ELSE IF \E medium \in tquery.media : medium \notin QUERY_MEDIA
    THEN "AssertionError"
    ELSE IF ~IsNone(tquery.location)
            /\ tquery.geocode # Some(twitter_geocode_from_location(Get(tquery.location)))
    THEN "AssertionError"
    ELSE IF ~IsNone(tquery.interval)
            /\ ~(/\ tquery.since_id = Some(snowflake_id(Get(tquery.interval).earliest))
                 /\ tquery.max_id = Some(snowflake_id(Get(tquery.interval).latest)))
    THEN "AssertionError"
    ELSE "ok"

(***************************************************************************)
(* ogre.validation.validate and ogre.validation.sanitize, the checks and   *)
(* the conversions of the common interface.  A number handed to float() is *)
(* a record [repr, value]: repr tells how the caller wrote it ("int" or    *)
(* "str"), value is the number it denotes; float() returns the record of   *)
(* repr "float".  media and interval are tuples, a location is a tuple of  *)
(* length 4 kept as a record.  The quantity is a number of halves.         *)
(***************************************************************************)
Float(x) == [repr |-> "float", value |-> x.value]

\* validation.py:99-146: "ok" or the exception raised
validation_validate(request) ==
    IF \E i \in 1..Len(request.media) :
          Lower(request.media[i]) \notin {"image", "sound", "text", "video"}
    THEN "ValueError"
    ELSE IF IntOfHalves(request.quantity) < 0 THEN "ValueError"
    ELSE IF ~IsNone(request.location)
            /\ LET location == Get(request.location)
               IN  \/ Float(location.latitude).value < -90
                   \/ Float(location.latitude).value > 90
                   \/ Float(location.longitude).value < -180
                   \/ Float(location.longitude).value > 180
                   \/ Float(location.radius).value < 0
                   \/ Lower(location.unit) \notin {"km", "mi"}
    THEN "ValueError"
    ELSE IF ~IsNone(request.interval)
            /\ LET interval == Get(request.interval)
               IN  \/ Len(interval) # 2
                   \/ Float(interval[1]).value < 0
                   \/ Float(interval[2]).value < 0
    THEN "ValueError"
    ELSE "ok"

\* validation.py:193-198: lowercase media, the first occurrence of each kept
RECURSIVE CleanMedia(_, _)
CleanMedia(media, clean) ==
    IF media = <<>> THEN clean
    ELSE LET medium == Lower(Head(media))
         IN  CleanMedia(Tail(media),
                        IF \E i \in 1..Len(clean) : clean[i] = medium
                        THEN clean ELSE Append(clean, medium))

\* validation.py:204-210
CleanLocation(location) ==
    IF IsNone(location) THEN None
    ELSE Some([latitude  |-> Float(Get(location).latitude),
               longitude |-> Float(Get(location).longitude),
               radius    |-> Float(Get(location).radius),
               unit      |-> Lower(Get(location).unit)])

\* a conversion of the interval that keeps the order it was given in
CleanInterval_KeepsOrder(interval) ==
    IF IsNone(interval) THEN None
    ELSE Some(<<Float(Get(interval)[1]), Float(Get(interval)[2])>>)

\* validation.py:212-218
CleanInterval(interval) ==
    IF IsNone(interval) THEN None
    ELSE LET since == Float(Get(interval)[1])
             until == Float(Get(interval)[2])
         IN  IF since.value > until.value
             THEN Some(<<until, since>>)
             ELSE Some(<<since, until>>)

\* validation.py:185-226, the tuple returned when validate raises nothing;
\* str() of a keyword that is a string is that string, int() truncates,
\* and the quantity returned is again a number of halves
validation_sanitize(request) ==
    [media    |-> CleanMedia(request.media, <<>>),
     keyword  |-> request.keyword,
     quantity |-> 2 * IntOfHalves(request.quantity),
     location |-> CleanLocation(request.location),
     interval |-> CleanInterval(request.interval)]

(***************************************************************************)
(* ogre.twitter.search_limits: a limit-status response is None when the    *)
(* nested structure is missing (KeyError), else carries the two integers.  *)
(***************************************************************************)
LimitsRaises(limits) == IsNone(limits)

LimitsRemaining(limits) == Get(limits).remaining

\* a lookup that reads a missing structure as "nothing remaining"
search_limits_DefaultsToZero(limits) ==
    [raises |-> FALSE,
     remaining |-> IF IsNone(limits) THEN 0 ELSE Get(limits).remaining]

\* twitter.py:102-115: OGReLimitError on a KeyError, else the integer found
search_limits(limits) ==
    [raises |-> LimitsRaises(limits),
     remaining |-> IF LimitsRaises(limits) THEN 0 ELSE LimitsRemaining(limits)]

(***************************************************************************)
(* ogre.twitter.geojson_from_tweet                                         *)
(***************************************************************************)
\* twitter.py:141-146: the URL of the first entity whose type is 'photo'
\* and that carries a URL, None when there is no such entity
\* a scan that takes the first entity with a URL, whatever its type
RECURSIVE FirstPhotoUrl_AnyType(_)
FirstPhotoUrl_AnyType(entities) ==
    IF entities = <<>> THEN None
    ELSE IF ~IsNone(Head(entities).media_url)
         THEN Head(entities).media_url
         ELSE FirstPhotoUrl_AnyType(Tail(entities))

RECURSIVE FirstPhotoUrl(_)
FirstPhotoUrl(entities) ==
    IF entities = <<>> THEN None
    ELSE IF Lower(Head(entities).type) = "photo" /\ ~IsNone(Head(entities).media_url)
         THEN Head(entities).media_url
         ELSE FirstPhotoUrl(Tail(entities))

\* the URL the image transport is called with for this tweet, None if it is not
ImageFetch(tweet, media, strict) ==
    IF "image" \in media \/ ~strict THEN FirstPhotoUrl(tweet.entities) ELSE None

\* the URLs of every photo of the tweet that carries one
RECURSIVE PhotoUrls(_)
PhotoUrls(entities) ==
    IF entities = <<>> THEN <<>>
    ELSE (IF Lower(Head(entities).type) = "photo"
          THEN Head(entities).media_url ELSE <<>>)
         \o PhotoUrls(Tail(entities))

\* a scan that does not stop at the first image it stored
TweetImageFetches_NoBreak(tweet, media, strict) ==
    IF "image" \in media \/ ~strict THEN PhotoUrls(tweet.entities) ELSE <<>>

\* twitter.py:140-146: the URLs the image transport is called with for one
\* tweet, in order; the scan breaks after the first image
TweetImageFetches(tweet, media, strict) == ImageFetch(tweet, media, strict)

\* a text that is kept only when it was requested, strict or not
TextAllowed_OnlyRequested(media, strict) == "text" \in media

\* twitter.py:137
TextAllowed(media, strict) == "text" \in media \/ ~strict

\* the feature built when the image fetch (if any) succeeds
geojson_from_tweet(tweet, media, strict) ==
    [type |-> "Feature",
     geometry |-> [type |-> "Point", coordinates |-> Get(tweet.coordinates)],
     properties |->
        (IF TextAllowed(media, strict) /\ ~IsNone(tweet.text)
         THEN [text |-> Get(tweet.text)] ELSE <<>>)
        @@
        (IF ~IsNone(ImageFetch(tweet, media, strict))
         THEN [image |-> <<"b64", Get(ImageFetch(tweet, media, strict))>>]
         ELSE <<>>)
        @@
        [source |-> "ogre.twitter",
         time |-> <<timestamp_from_snowflake_id(Get(tweet.id)), "Z">>,
         original |-> tweet]]

(***************************************************************************)
(* ogre.twitter.fetch: the pieces of the pagination loop.                  *)
(***************************************************************************)
\* an entry guard that forgets the media
NoResultsRequested_NoMediaCheck(tq, maxq) == tq.quantity < 1 \/ maxq < 1

\* an entry guard that does not look at the page cap of the caller
NoResultsRequested_NoBudgetCheck(tq, maxq) ==
    Cardinality(tq.media) < 1 \/ tq.quantity < 1

\* twitter.py:170, the entry guard
NoResultsRequested(tq, maxq) ==
    Cardinality(tq.media) < 1 \/ tq.quantity < 1 \/ maxq < 1

\* an entry that looks at quantity, media and max_queries before it sanitizes
BeginOutcome_GuardFirst(q, maxq) ==
    IF Cardinality(q.media \cap QUERY_MEDIA) < 1 \/ q.quantity < 1 \/ maxq < 1
    THEN "return"
    ELSE IF SanitizeRaises(q) THEN "ValueError" ELSE "limits"

\* twitter.py:158-172: the request is sanitized first, the entry guard comes
\* after the client is constructed
BeginOutcome(q, maxq) ==
    IF SanitizeRaises(q) THEN "ValueError"
    ELSE IF NoResultsRequested(twitter_query_from_query(q), maxq) THEN "return"
    ELSE "limits"

\* a gate that forgets the provider's answer
QueryLimit_IgnoresRemaining(rem, maxq) == maxq

\* twitter.py:175
QueryLimit(rem, maxq) == Min(rem, maxq)

\* a count that forgets the cap of the provider
PageCount_NoCap(rem) == rem

\* twitter.py:184
PageCount(rem) == Min(rem, PAGE_CAP)

\* twitter.py:190
ResponseMalformed(response) == IsNone(response.statuses)

\* a filter that also wants a text
Usable_NeedsText(status) ==
    ~IsNone(status.coordinates) /\ ~IsNone(status.id) /\ ~IsNone(status.text)

\* twitter.py:198, "Tweets must be geotagged and timestamped."
Usable(status) == ~IsNone(status.coordinates) /\ ~IsNone(status.id)

\* twitter.py:196-199; fetch never reaches these lines with a response that
\* lacks 'statuses', for which no status is usable
UsableStatuses(response) ==
    IF ResponseMalformed(response) THEN <<>>
    ELSE SelectSeq(Get(response.statuses), Usable)

\* a cursor that steps below the identifier the token carries
RECURSIVE NextMaxId_StepsBelow(_)
NextMaxId_StepsBelow(token) ==
    IF Head(token) = "max_id=" THEN token[2] - 1
    ELSE NextMaxId_StepsBelow(Tail(token))

\* twitter.py:205: the integer between 'max_id=' and the next '&'
RECURSIVE NextMaxId(_)
NextMaxId(token) ==
    IF Head(token) = "max_id=" THEN token[2] ELSE NextMaxId(Tail(token))

\* the URLs fetched, in order, while a page's usable statuses are converted
RECURSIVE PageImageFetches(_, _, _)
PageImageFetches(tweets, media, strict) ==
    IF tweets = <<>> THEN <<>>
    ELSE ImageFetch(Head(tweets), media, strict)
         \o PageImageFetches(Tail(tweets), media, strict)

\* a page whose features are appended last record first
PageFeatures_Reversed(response, media, strict) ==
    [i \in 1..Len(UsableStatuses(response)) |->
        geojson_from_tweet(
            UsableStatuses(response)[Len(UsableStatuses(response)) + 1 - i],
            media, strict)]

\* twitter.py:194-200
PageFeatures(response, media, strict) ==
    [i \in 1..Len(UsableStatuses(response)) |->
        geojson_from_tweet(UsableStatuses(response)[i], media, strict)]

\* a count of what is still wanted that is never brought up to date
Remaining_NotRecomputed(quantity, feats) == quantity

\* a counter that does not move
QueryCountAfter_Stuck(count) == count

\* twitter.py:189, every search call counts, whatever it brings
QueryCountAfter(count) == count + 1

\* twitter.py:201
Remaining(quantity, feats) == quantity - Len(feats)

\* a response without 'statuses' reported with the error of the limits
IterationOutcome_WrongError(response, failed) ==
    IF ResponseMalformed(response) THEN "OGReLimitError"
    ELSE IF failed > 0 THEN "URLError"
    ELSE IF IsNone(response.next_results) THEN "break"
    ELSE "continue"

\* a response without 'statuses' ends the loop instead of raising
IterationOutcome_MalformedBreaks(response, failed) ==
    IF failed > 0 THEN "URLError"
    ELSE IF IsNone(response.next_results) THEN "break"
    ELSE "continue"

\* a response without a next page raises instead of ending the loop
IterationOutcome_ExhaustionRaises(response, failed) ==
    IF ResponseMalformed(response) \/ IsNone(response.next_results)
    THEN "OGReQueryError"
    ELSE IF failed > 0 THEN "URLError"
    ELSE "continue"

\* a conversion that swallows the failure of the image transport
IterationOutcome_IgnoresImageFailure(response, failed) ==
    IF ResponseMalformed(response) THEN "OGReQueryError"
    ELSE IF IsNone(response.next_results) THEN "break"
    ELSE "continue"

\* twitter.py:190-205: how an iteration ends once the response is there;
\* failed > 0 when an image fetch failed while the page was converted
IterationOutcome(response, failed) ==
    IF ResponseMalformed(response) THEN "OGReQueryError"
    ELSE IF failed > 0 THEN "URLError"
    ELSE IF IsNone(response.next_results) THEN "break"
    ELSE "continue"

\* a loop that goes on although enough features were collected
LoopContinues_IgnoresRemaining(rem, count, limit) == count < limit

\* a loop that compares the query count with <= instead of <
LoopContinues_OffByOne(rem, count, limit) == rem > 0 /\ count <= limit

\* twitter.py:178-181
LoopContinues(rem, count, limit) == rem > 0 /\ count < limit

\* a loop that reports the reached query limit as an error
ExitOutcome_LimitRaises(rem, count, limit) ==
    IF rem > 0 /\ count >= limit THEN "OGReLimitError" ELSE "return"

\* twitter.py:179-181 and 215: the loop is left with break in either case and
\* the function returns
ExitOutcome(rem, count, limit) == "return"

(***************************************************************************)
(* The inputs of one fetch invocation and the answers of the provider.     *)
(***************************************************************************)
Medias == {{}, {"image"}, {"text", "sound"}, {"image", "text"}, {"sound", "video"}}

Keywords == {<<>>, <<"test">>}

Quantities == (0..MaxQuantity) \cup {PAGE_CAP + 1}

Locations == {None, Some([latitude |-> 0, longitude |-> 1, radius |-> 2, unit |-> "km"])}

Intervals == {None, Some([earliest |-> 3100, latest |-> 3200])}

\* the requests of the model: a keyword, or a location with an interval, or
\* neither
Queries ==
    {q \in [media : Medias, keyword : Keywords, quantity : Quantities,
            location : Locations, interval : Intervals] :
        /\ IsNone(q.location) <=> IsNone(q.interval)
        /\ q.keyword = <<>> \/ IsNone(q.location)}

MaxQueriesValues == (-1)..MaxQueries

\* strict changes nothing when both image and text are requested
StrictValues(q) == IF QUERY_MEDIA \subseteq q.media THEN {FALSE} ELSE BOOLEAN

\* a limit-status response: None when the expected structure is missing
LimitResponses ==
    {None} \cup {Some([remaining |-> r, reset |-> 9]) : r \in (-1)..MaxRemaining}

PhotoEntity == [type |-> "photo", media_url |-> Some("https://img")]

TweetFull ==
    [id |-> Some(3 * Pow2(SNOWFLAKE_SHIFT) + 5), coordinates |-> Some(<<10, 20>>),
     text |-> Some(<<"hello">>), entities |-> <<PhotoEntity>>]

TweetPlain ==
    [id |-> Some(4 * Pow2(SNOWFLAKE_SHIFT)), coordinates |-> Some(<<30, 40>>),
     text |-> None, entities |-> <<>>]

TweetNoGeo ==
    [id |-> Some(5 * Pow2(SNOWFLAKE_SHIFT)), coordinates |-> None,
     text |-> Some(<<"hello">>), entities |-> <<PhotoEntity>>]

TweetNoId ==
    [id |-> None, coordinates |-> Some(<<10, 20>>),
     text |-> Some(<<"hello">>), entities |-> <<>>]

Tweets == {TweetFull, TweetPlain, TweetNoGeo, TweetNoId}

\* the tweets a provider has to offer: every page lists tweets of its corpus
Corpora == {{TweetFull, TweetPlain}, {TweetFull, TweetNoGeo}, {TweetPlain, TweetNoId}}

StatusLists(tweets) == UNION {[1..n -> tweets] : n \in 0..MaxPageLen}

\* search_metadata.next_results, e.g. '?max_id=7&q=test'
NextResults == {None, Some(<<"?", "max_id=", 7, "&", "q=test">>)}

\* a search response: statuses is None when the results container is missing
SearchResponses(tweets) ==
    {[statuses |-> None, next_results |-> None]}
    \cup [statuses : {Some(l) : l \in StatusLists(tweets)}, next_results : NextResults]

(***************************************************************************)
(* The state of one fetch invocation.                                      *)
(***************************************************************************)
VARIABLES
    query,          \* the request (ogre.objects.Query)
    strict,         \* the strict flag
    max_queries,    \* the caller-supplied page cap
    corpus,         \* the tweets the provider has to offer
    pc,             \* "start", "limits", "loop", "returned", "raised"; "sanitized" in SanitizerSpec
    tquery,         \* the TwitterQuery, None until the request is sanitized
    clients,        \* number of API clients constructed (twitter.py:160)
    calls,          \* the provider calls made so far, in order
    limit_replies,  \* the limit-status responses received so far, in order
    pages,          \* the search responses received so far, in order
    query_count,    \* twitter.py:174
    query_limit,    \* twitter.py:175
    max_id,         \* twitter.py:176, the cursor
    remaining,      \* twitter.py:177
    features,       \* feature_collection['features']
    result,         \* the value returned, None while running or when raised
    error,          \* the exception raised, "" when none
    provider,       \* the provider's own count of the search calls it allows
    invocations,    \* the locals of each of several concurrent invocations
    collections,    \* the feature_collection object of each of them
    arg             \* the arguments of a function that is applied on its own

vars == <<query, strict, max_queries, corpus, pc, tquery, clients, calls, limit_replies, pages,
          query_count, query_limit, max_id, remaining, features, result, error,
          provider, invocations, collections, arg>>

inputs == <<query, strict, max_queries, corpus>>

locals == <<query_count, query_limit, max_id, remaining, features>>

\* the state that only the specification of concurrent invocations uses
concurrent == <<provider, invocations, collections>>

FeatureCollection(feats) == [type |-> "FeatureCollection", features |-> feats]

LimitCall == [op |-> "get_application_rate_limit_status"]

\* a search call that moves the lower bound along with the cursor
SearchCall_MovesLowerBound(tq, count, cursor) ==
    [op |-> "search", q |-> tq.keyword, count |-> count, geocode |-> tq.geocode,
     since_id |-> cursor, max_id |-> cursor]

SearchCall(tq, count, cursor) ==
    [op |-> "search", q |-> tq.keyword, count |-> count, geocode |-> tq.geocode,
     since_id |-> tq.since_id, max_id |-> cursor]

\* an iteration that asks for the limits again before it searches
IterationCalls_AsksLimitsAgain(tq, count, cursor) ==
    <<LimitCall, SearchCall(tq, count, cursor)>>

\* twitter.py:182-188: the provider calls one iteration makes before the
\* page is converted
IterationCalls(tq, count, cursor) == <<SearchCall(tq, count, cursor)>>

\* twitter.py:143, one call of the image transport and whether it failed
ImageCall(url, failed) == [op |-> "urlopen", url |-> url, failed |-> failed]

Init ==
    /\ query \in Queries
    /\ strict \in StrictValues(query)
    /\ max_queries \in MaxQueriesValues
    /\ corpus \in Corpora
    /\ pc = "start"
    /\ tquery = None
    /\ clients = 0
    /\ calls = <<>>
    /\ limit_replies = <<>>
    /\ pages = <<>>
    /\ query_count = 0
    /\ query_limit = 0
    /\ max_id = None
    /\ remaining = 0
    /\ features = <<>>
    /\ result = None
    /\ error = ""
    /\ provider = <<>>
    /\ invocations = <<>>
    /\ collections = <<>>
    /\ arg = <<>>

(***************************************************************************)
(* twitter.py:158-172: sanitize the request, construct the client, and     *)
(* return at once when no results were requested.                          *)
(***************************************************************************)
FetchBegin ==
    /\ pc = "start"
    /\ IF BeginOutcome(query, max_queries) = "ValueError"
       THEN /\ pc' = "raised"
            /\ error' = "ValueError"
            /\ UNCHANGED <<tquery, clients, result>>
       ELSE /\ tquery' = Some(twitter_query_from_query(query))
            /\ clients' = clients + 1
            /\ error' = error
            /\ IF BeginOutcome(query, max_queries) = "return"
               THEN /\ pc' = "returned"
                    /\ result' = Some(FeatureCollection(features))
               ELSE /\ pc' = "limits"
                    /\ result' = result
    /\ UNCHANGED <<arg, concurrent, inputs, calls, limit_replies, pages, locals>>

(***************************************************************************)
(* twitter.py:174-177 with search_limits (twitter.py:102-115): one         *)
(* limit-status call, then the loop variables are set up.                  *)
(***************************************************************************)
SearchLimits ==
    /\ pc = "limits"
    /\ \E reply \in LimitResponses :
        /\ calls' = Append(calls, LimitCall)
        /\ limit_replies' = Append(limit_replies, reply)
        /\ IF search_limits(reply).raises
           THEN /\ pc' = "raised"
                /\ error' = "OGReLimitError"
                /\ UNCHANGED locals
           ELSE /\ pc' = "loop"
                /\ error' = error
                /\ query_count' = 0
                /\ query_limit' = QueryLimit(search_limits(reply).remaining, max_queries)
                /\ max_id' = Get(tquery).max_id
                /\ remaining' = Get(tquery).quantity
                /\ features' = features
    /\ UNCHANGED <<arg, concurrent, inputs, tquery, clients, pages, result>>

(***************************************************************************)
(* twitter.py:178-205: one iteration of the loop that issues a search.     *)
(* failed is the position of the image fetch that fails while the page is  *)
(* converted, 0 when every image fetch succeeds.                           *)
(***************************************************************************)
Search ==
    /\ pc = "loop"
    /\ LoopContinues(remaining, query_count, query_limit)
    /\ \E response \in SearchResponses(corpus), failed \in 0..MaxPageLen :
        LET tq == Get(tquery)
            urls == PageImageFetches(UsableStatuses(response), tq.media, strict)
            fetched == IF failed = 0 THEN urls ELSE SubSeq(urls, 1, failed)
            feats == features \o PageFeatures(response, tq.media, strict)
            outcome == IterationOutcome(response, failed)
        IN  /\ failed <= Len(urls)
            /\ calls' = calls \o IterationCalls(tq, PageCount(remaining), max_id)
                        \o [i \in 1..Len(fetched) |-> ImageCall(fetched[i], i = failed)]
            /\ pages' = Append(pages, response)
            /\ query_count' = QueryCountAfter(query_count)
            /\ IF outcome \notin {"break", "continue"}
               THEN /\ pc' = "raised"
                    /\ error' = outcome
                    /\ UNCHANGED <<features, remaining, max_id, result>>
               ELSE /\ features' = feats
                    /\ remaining' = Remaining(tq.quantity, feats)
                    /\ error' = error
                    /\ IF outcome = "break"
                       THEN /\ pc' = "returned"
                            /\ result' = Some(FeatureCollection(feats))
                            /\ max_id' = max_id
                       ELSE /\ pc' = "loop"
                            /\ result' = result
                            /\ max_id' = Some(NextMaxId(Get(response.next_results)))
    /\ UNCHANGED <<arg, concurrent, inputs, tquery, clients, limit_replies, query_limit>>

(***************************************************************************)
(* twitter.py:178-181 and 206-215: the loop ends (enough features, or the  *)
(* query limit is reached) and the feature collection is returned.         *)
(***************************************************************************)
Return ==
    /\ pc = "loop"
    /\ ~LoopContinues(remaining, query_count, query_limit)
    /\ IF ExitOutcome(remaining, query_count, query_limit) = "return"
       THEN /\ pc' = "returned"
            /\ result' = Some(FeatureCollection(features))
            /\ error' = error
       ELSE /\ pc' = "raised"
            /\ result' = result
            /\ error' = ExitOutcome(remaining, query_count, query_limit)
    /\ UNCHANGED <<arg, concurrent, inputs, tquery, clients, calls, limit_replies, pages, locals>>

Next == FetchBegin \/ SearchLimits \/ Search \/ Return

(***************************************************************************)
(* The sanitizer on its own: twitter_query_from_query applied once to a    *)
(* request drawn from a wider set than the requests of fetch above (any    *)
(* medium, keywords with whitespace around them, a radius of zero).        *)
(***************************************************************************)
SanitizerMedias == SUBSET {"image", "sound", "text", "video", "smell"}

RECURSIVE Blanks(_)
Blanks(n) == IF n = 0 THEN <<>> ELSE <<" ">> \o Blanks(n - 1)

SanitizerKeywords ==
    {Blanks(a) \o core \o Blanks(b) :
        a \in 0..MaxPad, b \in 0..MaxPad,
        core \in {<<>>, <<"test">>, <<"a", " ", "b">>, <<"-pic.twitter.com">>}}

SanitizerLocations ==
    Locations \cup {Some([latitude |-> 0, longitude |-> 1, radius |-> r, unit |-> "km"]) :
                        r \in {-1, 0}}

SanitizerQueries ==
    [media : SanitizerMedias, keyword : SanitizerKeywords, quantity : {0, 1},
     location : SanitizerLocations, interval : Intervals]

SanitizerInit ==
    /\ query \in SanitizerQueries
    /\ strict = FALSE
    /\ max_queries = 0
    /\ corpus = {}
    /\ pc = "start"
    /\ tquery = None
    /\ clients = 0
    /\ calls = <<>>
    /\ limit_replies = <<>>
    /\ pages = <<>>
    /\ query_count = 0
    /\ query_limit = 0
    /\ max_id = None
    /\ remaining = 0
    /\ features = <<>>
    /\ result = None
    /\ error = ""
    /\ provider = <<>>
    /\ invocations = <<>>
    /\ collections = <<>>
    /\ arg = <<>>

\* twitter.py:68-99: the ValueError, or the TwitterQuery
Sanitize ==
    /\ pc = "start"
    /\ IF SanitizeRaises(query)
       THEN /\ pc' = "raised"
            /\ error' = "ValueError"
            /\ tquery' = tquery
       ELSE /\ pc' = "sanitized"
            /\ error' = error
            /\ tquery' = Some(twitter_query_from_query(query))
    /\ UNCHANGED <<arg, concurrent, inputs, clients, calls, limit_replies, pages, locals, result>>

\* the first five fields of a TwitterQuery, read as a request
FirstFive(tq) ==
    [media |-> tq.media, keyword |-> tq.keyword, quantity |-> tq.quantity,
     location |-> tq.location, interval |-> tq.interval]

\* twitter.py:68-99 applied to the first five fields of the TwitterQuery it
\* produced, as fetch does when it is handed them (test_twitter.py:39);
\* result holds the second TwitterQuery
SanitizeAgain ==
    /\ pc = "sanitized"
    /\ IF SanitizeRaises(FirstFive(Get(tquery)))
       THEN /\ pc' = "raised"
            /\ error' = "ValueError"
            /\ result' = result
       ELSE /\ pc' = "resanitized"
            /\ error' = error
            /\ result' = Some(twitter_query_from_query(FirstFive(Get(tquery))))
    /\ UNCHANGED <<arg, concurrent, inputs, tquery, clients, calls, limit_replies, pages, locals>>

SanitizerNext == Sanitize

SanitizerSpec == SanitizerInit /\ [][SanitizerNext]_vars

\* the sanitizer applied once, then once more to what it returned
ResanitizerNext == Sanitize \/ SanitizeAgain

ResanitizerSpec == SanitizerInit /\ [][ResanitizerNext]_vars

(***************************************************************************)
(* Two invocations of fetch that run concurrently against one provider.    *)
(* Both are called with the same request; a step of the specification is   *)
(* what one invocation does around one call of the provider.  The provider *)
(* counts the search calls it still allows; what it answers to a search    *)
(* call it no longer allows is not fixed by this repository, so every      *)
(* response is possible at every call.                                     *)
(***************************************************************************)
Procs == {1, 2}

ConcurrentQuery ==
    [media |-> {"text"}, keyword |-> <<"test">>, quantity |-> MaxQuantity,
     location |-> None, interval |-> None]

NextPage == Some(<<"?", "max_id=", 7, "&", "q=test">>)

ConcurrentResponses ==
    {[statuses |-> None, next_results |-> None],
     [statuses |-> Some(<<TweetPlain>>), next_results |-> NextPage],
     [statuses |-> Some(<<TweetPlain>>), next_results |-> None],
     [statuses |-> Some(<<>>), next_results |-> NextPage]}

\* the locals of fetch when it is entered
NewInvocation ==
    [pc |-> "start", tquery |-> None, limit_replies |-> <<>>, pages |-> <<>>,
     query_count |-> 0, query_limit |-> 0, max_id |-> None, remaining |-> 0,
     result |-> None, error |-> ""]

\* every invocation appends to the collection of the first one
FeatureOwner_Shared(p) == 1

\* twitter.py:165-168: every invocation builds a feature_collection of its own
FeatureOwner(p) == p

\* a loop that asks the provider for its count at every iteration
LoopBudget_ReadsProvider(inv, prov, maxq) == QueryLimit(prov.remaining, maxq)

\* twitter.py:175-179: the loop compares with the local set before the loop
LoopBudget(inv, prov, maxq) == inv.query_limit

single == <<pc, tquery, clients, calls, limit_replies, pages, locals, result, error>>

ConcurrentInit ==
    /\ query = ConcurrentQuery
    /\ strict = FALSE
    /\ max_queries \in 1..MaxQueries
    /\ corpus = {TweetPlain}
    /\ pc = "start"
    /\ tquery = None
    /\ clients = 0
    /\ calls = <<>>
    /\ limit_replies = <<>>
    /\ pages = <<>>
    /\ query_count = 0
    /\ query_limit = 0
    /\ max_id = None
    /\ remaining = 0
    /\ features = <<>>
    /\ result = None
    /\ error = ""
    /\ provider \in {[initial |-> r, remaining |-> r, searches |-> 0] :
                        r \in 0..MaxRemaining}
    /\ invocations = [p \in Procs |-> NewInvocation]
    /\ collections = [p \in Procs |-> <<>>]
    /\ arg = <<>>

(***************************************************************************)
(* twitter.py:158-177 for invocation p: sanitize, build the client and the *)
(* collection, leave at once when nothing is asked for, else ask the       *)
(* provider once for its count and set up the locals of the loop.          *)
(***************************************************************************)
BeginInvocation(p) ==
    LET inv == invocations[p]
        outcome == BeginOutcome(query, max_queries)
        tq == twitter_query_from_query(query)
        reply == Some([remaining |-> provider.remaining, reset |-> 9])
    IN  /\ inv.pc = "start"
        /\ invocations' = [invocations EXCEPT ![p] =
             IF outcome = "ValueError"
             THEN [inv EXCEPT !.pc = "raised", !.error = "ValueError"]
             ELSE IF outcome = "return"
             THEN [inv EXCEPT !.pc = "returned", !.tquery = Some(tq),
                              !.result = Some(FeatureCollection(
                                             collections[FeatureOwner(p)]))]
             ELSE IF search_limits(reply).raises
             THEN [inv EXCEPT !.pc = "raised", !.tquery = Some(tq),
                              !.limit_replies = Append(@, reply),
                              !.error = "OGReLimitError"]
             ELSE [inv EXCEPT !.pc = "loop", !.tquery = Some(tq),
                              !.limit_replies = Append(@, reply),
                              !.query_count = 0,
                              !.query_limit = QueryLimit(
                                  search_limits(reply).remaining, max_queries),
                              !.max_id = tq.max_id,
                              !.remaining = tq.quantity]]
        /\ UNCHANGED <<provider, collections, inputs, single, arg>>

(***************************************************************************)
(* twitter.py:178-205 for invocation p: one iteration that issues a        *)
(* search; the provider counts the call.                                   *)
(***************************************************************************)
SearchInvocation(p) ==
    LET inv == invocations[p]
        tq == Get(inv.tquery)
        own == FeatureOwner(p)
        budget == LoopBudget(inv, provider, max_queries)
    IN  /\ inv.pc = "loop"
        /\ LoopContinues(inv.remaining, inv.query_count, budget)
        /\ \E response \in ConcurrentResponses :
            LET feats == collections[own] \o PageFeatures(response, tq.media, strict)
                outcome == IterationOutcome(response, 0)
                asked == [inv EXCEPT !.pages = Append(@, response),
                                     !.query_count = @ + 1]
            IN  /\ provider' = [provider EXCEPT !.remaining = Max(0, @ - 1),
                                                !.searches = @ + 1]
                /\ IF outcome \notin {"break", "continue"}
                   THEN /\ invocations' = [invocations EXCEPT ![p] =
                              [asked EXCEPT !.pc = "raised", !.error = outcome]]
                        /\ collections' = collections
                   ELSE /\ collections' = [collections EXCEPT ![own] = feats]
                        /\ invocations' = [invocations EXCEPT ![p] =
                              IF outcome = "break"
                              THEN [asked EXCEPT
                                      !.pc = "returned",
                                      !.remaining = Remaining(tq.quantity, feats),
                                      !.result = Some(FeatureCollection(feats))]
                              ELSE [asked EXCEPT
                                      !.remaining = Remaining(tq.quantity, feats),
                                      !.max_id = Some(NextMaxId(
                                                   Get(response.next_results)))]]
        /\ UNCHANGED <<inputs, single, arg>>

(***************************************************************************)
(* twitter.py:178-181 and 206-215 for invocation p: the loop ends and the  *)
(* collection is returned.                                                 *)
(***************************************************************************)
ReturnInvocation(p) ==
    LET inv == invocations[p]
        budget == LoopBudget(inv, provider, max_queries)
        exit == ExitOutcome(inv.remaining, inv.query_count, budget)
    IN  /\ inv.pc = "loop"
        /\ ~LoopContinues(inv.remaining, inv.query_count, budget)
        /\ invocations' = [invocations EXCEPT ![p] =
             IF exit = "return"
             THEN [inv EXCEPT !.pc = "returned",
                              !.result = Some(FeatureCollection(
                                             collections[FeatureOwner(p)]))]
             ELSE [inv EXCEPT !.pc = "raised", !.error = exit]]
        /\ UNCHANGED <<provider, collections, inputs, single, arg>>

ConcurrentNext ==
    \E p \in Procs :
        BeginInvocation(p) \/ SearchInvocation(p) \/ ReturnInvocation(p)

ConcurrentSpec == ConcurrentInit /\ [][ConcurrentNext]_vars

(***************************************************************************)
(* The functions of the repository that depend on their arguments only,    *)
(* each applied once on its own: the ID/time codec, the validators and the *)
(* conversion of one tweet.  arg names the function and holds its          *)
(* arguments; result holds the value returned, error the exception.        *)
(***************************************************************************)
\* timestamps, in thirds of a millisecond, around the epoch of the codec
CodecTimestamps ==
    (3 * (SNOWFLAKE_EPOCH - MaxTick))..(3 * (SNOWFLAKE_EPOCH + MaxTick) + 2)

\* identifiers: a millisecond tick in the high bits, anything in the low 22
CodecIds ==
    {n * Pow2(SNOWFLAKE_SHIFT) + low :
        n \in (-MaxTick)..MaxTick, low \in {0, 1, Pow2(SNOWFLAKE_SHIFT) - 1}}

ValidatorIntervals ==
    [earliest : (-1)..MaxTick, latest : (-1)..MaxTick]

ValidatorLocations ==
    [latitude : {-91, -90, 0, 90, 91}, longitude : {-181, -180, 0, 91, 180, 181},
     radius : {-1, 0, 1}, unit : {"km", "mi", "ft"}]

\* requests whose quantity is a number of halves
ValidatorQueries ==
    [media : {{}, {"image"}, {"image", "sound", "text", "video"}, {"smell"},
              {"image", "smell"}},
     keyword : {<<"test">>},
     quantity : (-2)..2,
     location : {None,
                 Some([latitude |-> 0, longitude |-> 1, radius |-> 2, unit |-> "km"]),
                 Some([latitude |-> 0, longitude |-> 181, radius |-> 2, unit |-> "km"]),
                 Some([latitude |-> 0, longitude |-> 1, radius |-> 0, unit |-> "km"])},
     interval : {None, Some([earliest |-> 1, latest |-> 2]),
                 Some([earliest |-> 2, latest |-> 1])}]

Modules == {"ogre.objects", "ogre.validation"}

\* the media entities a tweet may carry
Entities ==
    {[type |-> "photo", media_url |-> Some("https://img/1")],
     [type |-> "Photo", media_url |-> Some("https://img/2")],
     [type |-> "photo", media_url |-> None],
     [type |-> "video", media_url |-> Some("https://vid")]}

EntityLists == UNION {[1..n -> Entities] : n \in 0..MaxEntities}

\* geotagged and identified tweets, with or without a text
BuilderTweets ==
    [id : {Some(3 * Pow2(SNOWFLAKE_SHIFT) + 5)}, coordinates : {Some(<<10, 20>>)},
     text : {None, Some(<<"hello">>)}, entities : EntityLists]

\* a moment as a caller writes it: a number or the text of a number
Moments == [repr : {"int", "str"}, value : (-1)..MaxTick]

\* the arguments of the common interface; the quantity is a number of halves
SanitizeRequests ==
    [media : {<<>>, <<"image">>, <<"Image", "image">>, <<"text", "image">>,
              <<"smell">>},
     keyword : {<<"test">>},
     quantity : {-2, -1, 3},
     location : {None,
                 Some([latitude  |-> [repr |-> "str", value |-> 0],
                       longitude |-> [repr |-> "int", value |-> 181],
                       radius    |-> [repr |-> "int", value |-> 1],
                       unit      |-> "km"]),
                 Some([latitude  |-> [repr |-> "str", value |-> 90],
                       longitude |-> [repr |-> "int", value |-> -180],
                       radius    |-> [repr |-> "int", value |-> 0],
                       unit      |-> "KM"])},
     interval : {None} \cup {Some(i) : i \in UNION {[1..n -> Moments] : n \in 1..2}}]

FunctionsInit ==
    /\ query = <<>>
    /\ strict = FALSE
    /\ max_queries = 0
    /\ corpus = {}
    /\ pc = "start"
    /\ tquery = None
    /\ clients = 0
    /\ calls = <<>>
    /\ limit_replies = <<>>
    /\ pages = <<>>
    /\ query_count = 0
    /\ query_limit = 0
    /\ max_id = None
    /\ remaining = 0
    /\ features = <<>>
    /\ result = None
    /\ error = ""
    /\ provider = <<>>
    /\ invocations = <<>>
    /\ collections = <<>>
    /\ \/ arg \in [fn : {"snowflake_id"}, timestamp : CodecTimestamps]
       \/ arg \in [fn : {"timestamp_from_snowflake_id"}, id : CodecIds]
       \/ arg \in [fn : {"validate_interval"}, module : Modules,
                   interval : ValidatorIntervals]
       \/ arg \in [fn : {"validate_location"}, module : Modules,
                   location : ValidatorLocations]
       \/ arg \in [fn : {"validate_query"}, module : Modules,
                   query : ValidatorQueries]
       \/ arg \in [fn : {"geojson_from_tweet"}, tweet : BuilderTweets,
                   media : SUBSET QUERY_MEDIA, strict : BOOLEAN, fails : BOOLEAN]
       \/ arg \in [fn : {"sanitize"}, request : SanitizeRequests]

rest == <<inputs, concurrent, tquery, clients, limit_replies, pages, locals, arg>>

\* the function returned value
Returns(value) ==
    /\ pc' = "returned"
    /\ result' = Some(value)
    /\ error' = error

\* a validator ended with outcome: it returns None or raises
Validated(outcome) ==
    IF outcome = "ok"
    THEN Returns("None")
    ELSE /\ pc' = "raised"
         /\ error' = outcome
         /\ result' = result

\* twitter.py:38-40
SnowflakeId ==
    /\ pc = "start"
    /\ arg.fn = "snowflake_id"
    /\ Returns(snowflake_id(arg.timestamp))
    /\ UNCHANGED <<rest, calls>>

\* twitter.py:43-45
TimestampFromSnowflakeId ==
    /\ pc = "start"
    /\ arg.fn = "timestamp_from_snowflake_id"
    /\ Returns(timestamp_from_snowflake_id(arg.id))
    /\ UNCHANGED <<rest, calls>>

\* objects.py:9-12
ObjectsValidateInterval ==
    /\ pc = "start"
    /\ arg.fn = "validate_interval" /\ arg.module = "ogre.objects"
    /\ Validated(objects_validate_interval(arg.interval))
    /\ UNCHANGED <<rest, calls>>

\* validation.py:15-23
ValidationValidateInterval ==
    /\ pc = "start"
    /\ arg.fn = "validate_interval" /\ arg.module = "ogre.validation"
    /\ Validated(validation_validate_interval(arg.interval))
    /\ UNCHANGED <<rest, calls>>

\* objects.py:18-24
ObjectsValidateLocation ==
    /\ pc = "start"
    /\ arg.fn = "validate_location" /\ arg.module = "ogre.objects"
    /\ Validated(objects_validate_location(arg.location))
    /\ UNCHANGED <<rest, calls>>

\* validation.py:29-42
ValidationValidateLocation ==
    /\ pc = "start"
    /\ arg.fn = "validate_location" /\ arg.module = "ogre.validation"
    /\ Validated(validation_validate_location(arg.location))
    /\ UNCHANGED <<rest, calls>>

\* objects.py:32-41
ObjectsValidateQuery ==
    /\ pc = "start"
    /\ arg.fn = "validate_query" /\ arg.module = "ogre.objects"
    /\ Validated(objects_validate_query(arg.query))
    /\ UNCHANGED <<rest, calls>>

\* validation.py:48-62
ValidationValidateQuery ==
    /\ pc = "start"
    /\ arg.fn = "validate_query" /\ arg.module = "ogre.validation"
    /\ Validated(validation_validate_query(arg.query))
    /\ UNCHANGED <<rest, calls>>

\* twitter.py:118-147: the image transport is called for the URLs of
\* TweetImageFetches, in order; when it fails, its error leaves the function
GeojsonFromTweet ==
    /\ pc = "start"
    /\ arg.fn = "geojson_from_tweet"
    /\ LET urls == TweetImageFetches(arg.tweet, arg.media, arg.strict)
       IN  IF arg.fails /\ urls # <<>>
           THEN /\ calls' = <<ImageCall(urls[1], TRUE)>>
                /\ pc' = "raised"
                /\ error' = "URLError"
                /\ result' = result
           ELSE /\ calls' = [i \in 1..Len(urls) |-> ImageCall(urls[i], FALSE)]
                /\ Returns(geojson_from_tweet(arg.tweet, arg.media, arg.strict))
    /\ UNCHANGED rest

\* validation.py:149-226: validate raises, or the clean tuple is returned
ValidationSanitize ==
    /\ pc = "start"
    /\ arg.fn = "sanitize"
    /\ IF validation_validate(arg.request) = "ok"
       THEN Returns(validation_sanitize(arg.request))
       ELSE /\ pc' = "raised"
            /\ error' = validation_validate(arg.request)
            /\ result' = result
    /\ UNCHANGED <<rest, calls>>

FunctionsNext ==
    \/ SnowflakeId \/ TimestampFromSnowflakeId
    \/ ObjectsValidateInterval \/ ValidationValidateInterval
    \/ ObjectsValidateLocation \/ ValidationValidateLocation
    \/ ObjectsValidateQuery \/ ValidationValidateQuery
    \/ GeojsonFromTweet
    \/ ValidationSanitize

FunctionsSpec == FunctionsInit /\ [][FunctionsNext]_vars

(***************************************************************************)
(* ogre.api.OGRe: the facade that relays one request to every source named *)
(* by the caller.  arg holds the keys the object was constructed with and  *)
(* the arguments of fetch; calls lists the sources invoked so far, in      *)
(* order, so that the position of the loop is Len(calls) + 1.  The source  *)
(* bound by api.py:9 is not part of the sources at hand: a call of it      *)
(* returns some list of features or raises.                                *)
(***************************************************************************)
\* api.py:106, the names of source_map
SOURCE_MAP == {"twitter"}

\* api.py:46-50: the lowercase names of the keys the object holds
Keyring(keys) == {Lower(key) : key \in keys}

\* a guard that does not look at the quantity
FacadeGuard_MediaOnly(media, quantity) == media # <<>>

\* api.py:112
FacadeGuard(media, quantity) == media # <<>> /\ quantity > 0

\* what a call of a source may answer with: the features it found, or None
\* when it raises
SourceReplies == {Some(<<>>), Some(<<"feature">>), None}

SourceCall(name, failed) == [op |-> "source", name |-> name, failed |-> failed]

FacadeSourceNames == {"twitter", "Twitter", "flickr"}

FacadeInit ==
    /\ query = <<>>
    /\ strict = FALSE
    /\ max_queries = 0
    /\ corpus = {}
    /\ pc = "start"
    /\ tquery = None
    /\ clients = 0
    /\ calls = <<>>
    /\ limit_replies = <<>>
    /\ pages = <<>>
    /\ query_count = 0
    /\ query_limit = 0
    /\ max_id = None
    /\ remaining = 0
    /\ features = <<>>
    /\ result = None
    /\ error = ""
    /\ provider = <<>>
    /\ invocations = <<>>
    /\ collections = <<>>
    /\ arg \in [fn : {"OGRe.fetch"},
                keys : {{}, {"Twitter"}},
                sources : UNION {[1..n -> FacadeSourceNames] : n \in 0..MaxSources},
                media : {<<>>, <<"image">>},
                quantity : (-1)..1]

facade_rest ==
    <<inputs, concurrent, tquery, clients, limit_replies, pages,
      query_count, query_limit, max_id, remaining, arg>>

\* api.py:108-112: the collection starts empty and the guard is tested
FacadeBegin ==
    /\ pc = "start"
    /\ arg.fn = "OGRe.fetch"
    /\ IF FacadeGuard(arg.media, arg.quantity)
       THEN /\ pc' = "sources"
            /\ result' = result
       ELSE /\ pc' = "returned"
            /\ result' = Some(FeatureCollection(<<>>))
    /\ UNCHANGED <<facade_rest, calls, features, error>>

\* api.py:113-126, one iteration of the loop over the sources
FacadeSource ==
    /\ pc = "sources"
    /\ Len(calls) < Len(arg.sources)
    /\ LET source == Lower(arg.sources[Len(calls) + 1])
       IN  IF source \notin SOURCE_MAP
           THEN /\ pc' = "raised"
                /\ error' = "ValueError"
                /\ UNCHANGED <<calls, features>>
           ELSE IF source \notin Keyring(arg.keys)
           THEN /\ pc' = "raised"
                /\ error' = "KeyError"
                /\ UNCHANGED <<calls, features>>
           ELSE \E reply \in SourceReplies :
                   /\ calls' = Append(calls, SourceCall(source, IsNone(reply)))
                   /\ IF IsNone(reply)
                      THEN /\ pc' = "raised"
                           /\ error' = "OGReError"
                           /\ features' = features
                      ELSE /\ pc' = pc
                           /\ error' = error
                           /\ features' = features \o Get(reply)
    /\ UNCHANGED <<facade_rest, result>>

\* api.py:127, after the last source
FacadeReturn ==
    /\ pc = "sources"
    /\ Len(calls) = Len(arg.sources)
    /\ pc' = "returned"
    /\ result' = Some(FeatureCollection(features))
    /\ UNCHANGED <<facade_rest, calls, features, error>>

FacadeNext == FacadeBegin \/ FacadeSource \/ FacadeReturn

FacadeSpec == FacadeInit /\ [][FacadeNext]_vars

Spec == Init /\ [][Next]_vars

(***************************************************************************)
(* One fetch invocation for a request with an interval whose bounds come   *)
(* in either order, a millisecond or more apart or within one millisecond. *)
(***************************************************************************)
\* timestamps in thirds of a millisecond: the two in the middle round to
\* the same millisecond
IntervalMoments == {3100, 3101, 3103, 3200}

IntervalQueries ==
    [media : {{"image", "text"}}, keyword : {<<"test">>},
     quantity : 1..MaxQuantity, location : {None},
     interval : {Some(i) : i \in [earliest : IntervalMoments,
                                  latest : IntervalMoments]}]

IntervalInit ==
    /\ query \in IntervalQueries
    /\ strict = FALSE
    /\ max_queries \in MaxQueriesValues
    /\ corpus \in Corpora
    /\ pc = "start"
    /\ tquery = None
    /\ clients = 0
    /\ calls = <<>>
    /\ limit_replies = <<>>
    /\ pages = <<>>
    /\ query_count = 0
    /\ query_limit = 0
    /\ max_id = None
    /\ remaining = 0
    /\ features = <<>>
    /\ result = None
    /\ error = ""
    /\ provider = <<>>
    /\ invocations = <<>>
    /\ collections = <<>>
    /\ arg = <<>>

IntervalSpec == IntervalInit /\ [][Next]_vars

\* the invocations whose end is looked at: the requests without a location
\* (their search calls differ from the others' in the geocode and in the
\* identifier bounds only), strict off
LiveInit ==
    /\ Init
    /\ IsNone(query.location)
    /\ strict = FALSE

\* each step of fetch is taken once it can be: the program runs on and
\* every provider call returns
LiveSpec == LiveInit /\ [][Next]_vars /\ WF_vars(Next)

(***************************************************************************)
(* What an observer of the provider sees of one invocation.                *)
(***************************************************************************)
IsSearch(c) == c.op = "search"
IsLimit(c) == c.op = "get_application_rate_limit_status"

SearchCalls == SelectSeq(calls, IsSearch)
NumSearchCalls == Len(SearchCalls)
NumLimitCalls == Len(SelectSeq(calls, IsLimit))

Finished == pc \in {"returned", "raised"}
EmptyCollection == [type |-> "FeatureCollection", features |-> <<>>]

\* the 'remaining' of the limit-status response, once a well-formed one came
LimitKnown == limit_replies # <<>> /\ limit_replies[1] # <<>>
ReportedRemaining == limit_replies[1][1].remaining

\* a record that carries both a geolocation and an identifier
Geotagged(r) == r.coordinates # <<>> /\ r.id # <<>>
GeotaggedIn(page) ==
    IF page.statuses = <<>> THEN <<>> ELSE SelectSeq(page.statuses[1], Geotagged)

\* number of geotagged records in the first n pages received
RECURSIVE GeotaggedUpTo(_)
GeotaggedUpTo(n) ==
    IF n = 0 THEN 0 ELSE GeotaggedUpTo(n - 1) + Len(GeotaggedIn(pages[n]))

(***************************************************************************)
(* C1 (as stated): the number of search calls never exceeds                *)
(* min(remaining, max_queries), remaining being the value the limit-status *)
(* call returned.  It fails when the provider reports a negative           *)
(* remaining: zero calls exceed a negative bound.                          *)
(***************************************************************************)
C1_AsStated ==
    LimitKnown => NumSearchCalls <= Min(ReportedRemaining, max_queries)

(***************************************************************************)
(* C1 (amended): the number of search calls never exceeds                  *)
(* max(0, min(remaining, max_queries)).                                    *)
(***************************************************************************)
C1_SearchCallsWithinBudget ==
    /\ LimitKnown =>
         NumSearchCalls <= Max(0, Min(ReportedRemaining, max_queries))
    /\ ~LimitKnown => NumSearchCalls = 0

\* the whole budget was used: two search calls under a budget of two
C1_Witness ==
    /\ pc = "returned"
    /\ LimitKnown
    /\ Min(ReportedRemaining, max_queries) = 2
    /\ NumSearchCalls = 2

(***************************************************************************)
(* C2 (as stated): a request with quantity 0 or empty media, whatever its  *)
(* keyword and location, ends with the empty FeatureCollection returned    *)
(* and no provider call.  It fails for a request that sanitization         *)
(* rejects: fetch raises ValueError before it looks at quantity or media.  *)
(***************************************************************************)
C2_AsStated ==
    (Finished /\ (query.quantity = 0 \/ query.media = {})) =>
        /\ result = <<EmptyCollection>>
        /\ calls = <<>>

(***************************************************************************)
(* C2 (amended): a request with quantity 0, or with no medium among image  *)
(* and text, never leads to a provider call; when its sanitization         *)
(* succeeds fetch returns exactly the empty FeatureCollection, and         *)
(* otherwise it raises the sanitization error.                             *)
(***************************************************************************)
C2_EmptyRequestNoCalls ==
    (query.quantity = 0 \/ query.media \cap {"image", "text"} = {}) =>
        /\ calls = <<>>
        /\ pc \in {"start", "returned", "raised"}
        /\ pc = "returned" => result = <<EmptyCollection>> /\ error = ""
        /\ pc = "raised" => result = <<>> /\ error = "ValueError" /\ tquery = <<>>
        /\ (pc # "start" /\ tquery # <<>>) => pc = "returned"

\* a request for sound and video only, with a keyword, has returned
C2_Witness ==
    /\ pc = "returned"
    /\ query.media = {"sound", "video"}
    /\ query.quantity > 0
    /\ max_queries >= 1
    /\ result = <<EmptyCollection>>

(***************************************************************************)
(* C3: the limit-status endpoint is called at most once per invocation;    *)
(* when the sanitized media is non-empty, quantity >= 1 and                *)
(* max_queries >= 1 it is called exactly once, and that call comes before  *)
(* the first search call.                                                  *)
(***************************************************************************)
C3_LimitStatusOnce ==
    /\ NumLimitCalls <= 1
    /\ (/\ pc \notin {"start", "limits"}
        /\ tquery # <<>>
        /\ tquery[1].media # {}
        /\ query.quantity >= 1
        /\ max_queries >= 1) => NumLimitCalls = 1
    /\ \A i \in 1..Len(calls) :
          IsSearch(calls[i]) => \E j \in 1..(i - 1) : IsLimit(calls[j])

\* an invocation that searched twice has made one limit-status call, first
C3_Witness ==
    /\ pc = "returned"
    /\ NumSearchCalls = 2
    /\ NumLimitCalls = 1
    /\ IsLimit(calls[1])

(***************************************************************************)
(* C4: when the limit-status call reports remaining <= 0, fetch issues no  *)
(* search call and returns the empty FeatureCollection without an error.   *)
(***************************************************************************)
C4_NoQuotaNoSearch ==
    (LimitKnown /\ ReportedRemaining <= 0) =>
        /\ NumSearchCalls = 0
        /\ pages = <<>>
        /\ error = ""
        /\ pc \in {"loop", "returned"}
        /\ pc = "returned" => result = <<EmptyCollection>>

\* the provider reported no remaining query and fetch has returned
C4_Witness ==
    /\ pc = "returned"
    /\ LimitKnown
    /\ ReportedRemaining = 0
    /\ result = <<EmptyCollection>>

(***************************************************************************)
(* C5: a search response without 'statuses' makes fetch raise              *)
(* OGReQueryError, and no search call follows it; when it is the first     *)
(* response, exactly one search call was made.                             *)
(***************************************************************************)
C5_MalformedResponseRaises ==
    \A i \in 1..Len(pages) :
        pages[i].statuses = <<>> =>
            /\ i = Len(pages)
            /\ NumSearchCalls = i
            /\ pc = "raised"
            /\ error = "OGReQueryError"

\* the first response lacked 'statuses': one search call, then the error
C5_Witness ==
    /\ pc = "raised"
    /\ Len(pages) = 1
    /\ pages[1].statuses = <<>>
    /\ NumSearchCalls = 1

(***************************************************************************)
(* C6: when a response without 'statuses' arrives after earlier pages      *)
(* contributed features, the invocation ends in the error and nothing is   *)
(* returned: no FeatureCollection, none of the accumulated features.       *)
(***************************************************************************)
C6_NoPartialResult ==
    (Len(pages) > 1 /\ pages[Len(pages)].statuses = <<>>) =>
        /\ pc = "raised"
        /\ result = <<>>

\* the second response lacked 'statuses' after the first one gave features
C6_Witness ==
    /\ pc = "raised"
    /\ Len(pages) = 2
    /\ pages[2].statuses = <<>>
    /\ features # <<>>
    /\ result = <<>>

(***************************************************************************)
(* C7: every search call is issued with                                    *)
(* count = min(quantity - features accumulated so far, 100), and so with   *)
(* 1 <= count <= 100.                                                      *)
(***************************************************************************)
C7_PageCount ==
    \A i \in 1..NumSearchCalls :
        /\ SearchCalls[i].count = Min(query.quantity - GeotaggedUpTo(i - 1), 100)
        /\ 1 <= SearchCalls[i].count
        /\ SearchCalls[i].count <= 100

\* 101 features wanted: the first call asks for 100, the second for the 99 left
C7_Witness ==
    /\ NumSearchCalls = 2
    /\ SearchCalls[1].count = 100
    /\ SearchCalls[2].count = 99

\* no page carried more geotagged records than the count asked for
NoPageOverdelivers ==
    \A i \in 1..Len(pages) : Len(GeotaggedIn(pages[i])) <= SearchCalls[i].count

(***************************************************************************)
(* C8 (as stated): whenever fetch returns, the collection holds at most    *)
(* quantity features, also when a page carries more geotagged records than *)
(* the count asked for.  It fails: a page is appended whole.               *)
(***************************************************************************)
C8_AsStated ==
    pc = "returned" => Len(result[1].features) <= query.quantity

(***************************************************************************)
(* C8 (amended): whenever fetch returns, fewer than quantity features had  *)
(* been accumulated before the last page fetched, so the collection holds  *)
(* fewer than quantity + (geotagged records of the last page) features;    *)
(* it holds between 0 and quantity features when no page carries more      *)
(* geotagged records than the count asked for.                             *)
(***************************************************************************)
C8_ResultSize ==
    pc = "returned" =>
        LET n == Len(result[1].features)
        IN  /\ pages = <<>> => n = 0
            /\ pages # <<>> =>
                  n - Len(GeotaggedIn(pages[Len(pages)])) < query.quantity
            /\ NoPageOverdelivers => n <= query.quantity

\* two pages of one geotagged record each fill a request for two
C8_Witness ==
    /\ pc = "returned"
    /\ Len(pages) = 2
    /\ NoPageOverdelivers
    /\ query.quantity = 2
    /\ Len(result[1].features) = 2

\* the records of all pages received, and the records behind a feature list
PageRecords ==
    UNION {{pages[i].statuses[1][j] : j \in 1..Len(pages[i].statuses[1])} :
              i \in {k \in 1..Len(pages) : pages[k].statuses # <<>>}}

Originals(feats) == {feats[i].properties.original : i \in 1..Len(feats)}

(***************************************************************************)
(* C9: a record of a search page is in the output if and only if it        *)
(* carries both a geolocation ('coordinates') and an identifier ('id').    *)
(***************************************************************************)
C9_OnlyGeotaggedRecords ==
    pc = "returned" =>
        Originals(result[1].features) =
            {r \in PageRecords : r.coordinates # <<>> /\ r.id # <<>>}

\* a page mixed records with and without geolocation or identifier
C9_Witness ==
    /\ pc = "returned"
    /\ \E r \in PageRecords : r.coordinates = <<>> \/ r.id = <<>>
    /\ \E r \in PageRecords : r.coordinates # <<>> /\ r.id # <<>>
    /\ result[1].features # <<>>

TokenMaxId(page) == Get(page.next_results)[3]

(***************************************************************************)
(* C11: the first search call of an invocation carries as max_id the       *)
(* upper bound of the sanitized query (absent when the request has no      *)
(* interval), and every later search call carries the integer max_id of    *)
(* the next-page token of the response just before it.                     *)
(***************************************************************************)
C11_CursorFollowsToken ==
    \A i \in 1..NumSearchCalls :
        /\ i = 1 =>
             /\ SearchCalls[i].max_id = Get(tquery).max_id
             /\ IsNone(query.interval) => SearchCalls[i].max_id = None
             /\ ~IsNone(query.interval) =>
                  SearchCalls[i].max_id =
                      Some(snowflake_id(Get(query.interval).latest))
        /\ i > 1 =>
             /\ ~IsNone(pages[i - 1].next_results)
             /\ SearchCalls[i].max_id = Some(TokenMaxId(pages[i - 1]))

\* a second search call was issued on a request that has an interval: its
\* cursor is the token's integer, not the upper bound of the first call
C11_Witness ==
    /\ NumSearchCalls = 2
    /\ ~IsNone(query.interval)
    /\ SearchCalls[1].max_id # SearchCalls[2].max_id

\* an image fetch of this invocation failed
ImageFailed == \E i \in 1..Len(calls) : calls[i].op = "urlopen" /\ calls[i].failed

\* the pages the budget allows were all fetched, the last one was converted
\* and offered a next page, and fewer than quantity features came of them
BudgetExhausted ==
    /\ LimitKnown
    /\ pages # <<>>
    /\ Len(pages) >= Min(ReportedRemaining, max_queries)
    /\ pages[Len(pages)].statuses # <<>>
    /\ pages[Len(pages)].next_results # <<>>
    /\ ~ImageFailed
    /\ GeotaggedUpTo(Len(pages)) < query.quantity

C14_SanitizationErrorFirst ==
    /\ (pc # "start" /\ SanitizeRaises(query)) =>
         /\ pc = "raised"
         /\ error = "ValueError"
         /\ clients = 0
         /\ calls = <<>>
         /\ limit_replies = <<>>
         /\ pages = <<>>
         /\ result = None
    /\ error = "ValueError" => SanitizeRaises(query) /\ clients = 0

\* a request for nothing (quantity 0, no media, max_queries 0) that names
\* neither keyword nor location: the error, not the empty collection
C14_Witness ==
    /\ pc = "raised"
    /\ error = "ValueError"
    /\ query.quantity = 0
    /\ query.media = {}
    /\ max_queries = 0
    /\ clients = 0
    /\ calls = <<>>

(***************************************************************************)
(* C15: if the limit-status response lacks the expected nested structure,  *)
(* fetch fails with OGReLimitError, the limit-status call is not repeated  *)
(* and no search call is ever issued in that invocation.                   *)
(***************************************************************************)
C15_MalformedLimitsRaise ==
    /\ (limit_replies # <<>> /\ limit_replies[1] = <<>>) =>
         /\ pc = "raised"
         /\ error = "OGReLimitError"
         /\ NumLimitCalls = 1
         /\ NumSearchCalls = 0
         /\ pages = <<>>
         /\ result = None
    /\ error = "OGReLimitError" => limit_replies = <<None>>

\* a request that asks for results got a limit-status response without the
\* nested structure: the one call in the log is the limit-status call
C15_Witness ==
    /\ limit_replies = <<None>>
    /\ query.quantity > 0
    /\ max_queries > 0
    /\ pc = "raised"
    /\ error = "OGReLimitError"
    /\ calls = <<LimitCall>>

(***************************************************************************)
(* C16: if an image fetch fails while a page's records are converted, the  *)
(* invocation aborts with the error of the transport: the failed fetch is  *)
(* the last provider call of the invocation (no further image fetch, no    *)
(* further search), and no FeatureCollection is returned, not even the     *)
(* features built before the failure.                                      *)
(***************************************************************************)
C16_ImageFailureAborts ==
    /\ \A i \in 1..Len(calls) :
         (calls[i].op = "urlopen" /\ calls[i].failed) =>
             /\ i = Len(calls)
             /\ pc = "raised"
             /\ error = "URLError"
             /\ result = None
             /\ NumSearchCalls = Len(pages)
    /\ error = "URLError" => ImageFailed

\* the second page's second image fetch failed after the first page gave a
\* feature and the second page's first image was fetched: nothing is returned
C16_Witness ==
    /\ ImageFailed
    /\ Len(pages) = 2
    /\ features # <<>>
    /\ Len(calls) >= 2
    /\ calls[Len(calls) - 1].op = "urlopen"
    /\ pc = "raised"
    /\ result = None

(***************************************************************************)
(* C13 (as stated): for every request whose keyword is empty and whose     *)
(* location is absent, for every media set, the sanitizer raises the       *)
(* ValueError 'Specify either a keyword or a location.'  It fails for a    *)
(* request whose supported media are exactly {image}: the keyword becomes  *)
(* 'pic.twitter.com' and the request sanitizes.                            *)
(***************************************************************************)
C13_AsStated ==
    (pc # "start" /\ query.keyword = <<>> /\ IsNone(query.location)) =>
        pc = "raised" /\ error = "ValueError"

(***************************************************************************)
(* C13 (amended): for every request whose keyword is empty and whose       *)
(* location is absent, the sanitizer raises the ValueError unless the      *)
(* requested media intersected with {image, text} are exactly {image}; in  *)
(* that case it returns a query whose keyword is 'pic.twitter.com'.        *)
(***************************************************************************)
C13_NoKeywordNoLocation ==
    (pc # "start" /\ query.keyword = <<>> /\ IsNone(query.location)) =>
        IF query.media \cap {"image", "text"} = {"image"}
        THEN /\ pc = "sanitized"
             /\ error = ""
             /\ Get(tquery).keyword = <<"pic.twitter.com">>
        ELSE /\ pc = "raised"
             /\ error = "ValueError"
             /\ tquery = None

\* text alone was requested with neither keyword nor location: the keyword
\* would be the exclusion hint alone, the request is refused
C13_Witness ==
    /\ pc = "raised"
    /\ error = "ValueError"
    /\ query.keyword = <<>>
    /\ IsNone(query.location)
    /\ query.media = {"text", "video"}

(***************************************************************************)
(* C19: the media of the sanitized query are exactly the requested media   *)
(* that are image or text (a set: no medium twice); sound, video and any   *)
(* other medium are dropped, and the only error of the sanitizer is the    *)
(* one for a request left without keyword and without geocode.             *)
(***************************************************************************)
C19_MediaIntersection ==
    /\ pc = "sanitized" =>
         /\ Get(tquery).media = {m \in query.media : m = "image" \/ m = "text"}
         /\ Get(tquery).media \subseteq {"image", "text"}
    /\ pc = "raised" =>
         /\ error = "ValueError"
         /\ IsNone(query.location) \/ Get(query.location).radius <= 0
         /\ strip(query.keyword) \in {<<>>, <<"-pic.twitter.com">>}

\* image was requested together with sound, video and an unknown medium:
\* the request sanitizes and image alone remains
C19_Witness ==
    /\ pc = "sanitized"
    /\ query.media = {"image", "sound", "video", "smell"}
    /\ Get(tquery).media = {"image"}

\* the keyword of the request followed by the hint its supported media call for
HintedKeyword ==
    query.keyword \o
        (IF query.media \cap {"image", "text"} = {"image"}
         THEN <<" ", "pic.twitter.com">>
         ELSE IF query.media \cap {"image", "text"} = {"text"}
         THEN <<" ", "-pic.twitter.com">>
         ELSE <<>>)

\* k is s without its leading and its trailing whitespace
IsTrimOf(k, s) ==
    /\ k = <<>> \/ (k[1] # " " /\ k[Len(k)] # " ")
    /\ \E a \in 0..Len(s) : \E b \in 0..(Len(s) - a) :
         /\ k = SubSeq(s, a + 1, Len(s) - b)
         /\ \A i \in 1..a : s[i] = " "
         /\ \A i \in (Len(s) - b + 1)..Len(s) : s[i] = " "

(***************************************************************************)
(* C20: the sanitized keyword is the requested keyword with                *)
(* ' pic.twitter.com' appended when the sanitized media are exactly        *)
(* {image}, with ' -pic.twitter.com' appended when they are exactly        *)
(* {text}, and with nothing appended when they are {image, text} or empty, *)
(* the whole then trimmed of leading and trailing whitespace.              *)
(***************************************************************************)
C20_KeywordHint ==
    pc = "sanitized" => IsTrimOf(Get(tquery).keyword, HintedKeyword)

\* ' test ' for images alone becomes 'test  pic.twitter.com': the leading
\* blank is gone, the inner ones stay
C20_Witness ==
    /\ pc = "sanitized"
    /\ query.keyword = <<" ", "test", " ">>
    /\ query.media = {"image", "sound"}
    /\ Get(tquery).keyword = <<"test", " ", " ", "pic.twitter.com">>

\* the 'remaining' invocation p was told by its limit-status call
ReadRemaining(p) == invocations[p].limit_replies[1][1].remaining

\* invocation p is past its limit-status call, which was answered
LimitChecked(p) ==
    /\ invocations[p].limit_replies # <<>>
    /\ invocations[p].limit_replies[1] # <<>>

(***************************************************************************)
(* C17: each of two concurrent invocations asks the provider for its       *)
(* remaining count once, at its own start, and whatever the provider's     *)
(* count becomes afterwards, the invocation's page budget stays            *)
(* min(the value it read, max_queries): it never issues more search calls  *)
(* than that, and it gives up for lack of budget only when it has issued   *)
(* exactly that many.  (That the two together can issue more search calls  *)
(* than the provider allowed at the start is the reachable state           *)
(* C17_Witness.)                                                           *)
(***************************************************************************)
C17_BudgetReadOnce ==
    \A p \in Procs :
        LET inv == invocations[p]
        IN  /\ Len(inv.limit_replies) <= 1
            /\ inv.pc = "start" => inv.limit_replies = <<>> /\ inv.pages = <<>>
            /\ LimitChecked(p) =>
                 /\ inv.query_limit = Min(ReadRemaining(p), max_queries)
                 /\ inv.query_count = Len(inv.pages)
                 /\ Len(inv.pages) <= Max(0, Min(ReadRemaining(p), max_queries))
                 /\ (/\ inv.pc = "returned"
                     /\ Len(collections[p]) < query.quantity
                     /\ inv.pages # <<>> =>
                            inv.pages[Len(inv.pages)].next_results # <<>>) =>
                         Len(inv.pages) = Max(0, Min(ReadRemaining(p), max_queries))

\* the provider allowed one search call, both invocations were told so
\* before either searched, and each then issued its one search call
C17_Witness ==
    /\ provider.initial = 1
    /\ provider.searches = 2
    /\ provider.searches > provider.initial
    /\ \A p \in Procs :
         /\ LimitChecked(p)
         /\ ReadRemaining(p) = 1
         /\ Len(invocations[p].pages) = 1
         /\ invocations[p].pc = "returned"

\* twitter.py:174-205 read as a function of the responses one invocation
\* receives: its page counter, cursor and features after the responses rs
RECURSIVE LoopAlone(_, _)
LoopAlone(st, rs) ==
    IF rs = <<>> THEN st
    ELSE LoopAlone(
           [st EXCEPT
              !.query_count = @ + 1,
              !.features = @ \o PageFeatures(Head(rs), st.media, strict),
              !.max_id = IF IsNone(Head(rs).next_results) THEN @
                         ELSE Some(NextMaxId(Get(Head(rs).next_results)))],
           Tail(rs))

\* what invocation p has when it runs alone on the responses it received
FetchAlone(p) ==
    LoopAlone([query_count |-> 0, features |-> <<>>,
               max_id |-> twitter_query_from_query(query).max_id,
               media |-> twitter_query_from_query(query).media],
              invocations[p].pages)

\* a step of invocation p
OwnStep(p) == BeginInvocation(p) \/ SearchInvocation(p) \/ ReturnInvocation(p)

\* at every moment the locals of every invocation are those of a run alone
EachAsAlone ==
    \A p \in Procs :
        LET inv == invocations[p]
        IN  /\ inv.query_count = FetchAlone(p).query_count
            /\ collections[p] = FetchAlone(p).features
            /\ LimitChecked(p) => inv.max_id = FetchAlone(p).max_id
            /\ inv.pc = "returned" =>
                 inv.result = Some(FeatureCollection(FetchAlone(p).features))
            /\ inv.pc # "returned" => inv.result = None

(***************************************************************************)
(* C18: two concurrent invocations share no mutable state: under every     *)
(* interleaving the cursor, the page counter and the feature list of an    *)
(* invocation are changed by its own steps only, and they, and the result  *)
(* it returns, are what the invocation has when it runs alone on the       *)
(* responses it received.                                                  *)
(***************************************************************************)
C18_NoSharedState ==
    /\ []EachAsAlone
    /\ [][\A p \in Procs :
            (invocations'[p] # invocations[p] \/ collections'[p] # collections[p])
                => OwnStep(p)]_vars

\* the two invocations took turns: the first received a page with a record
\* and stopped there, the second collected two records over two pages
C18_Witness ==
    /\ invocations[1].pc = "returned"
    /\ invocations[2].pc = "returned"
    /\ Len(invocations[1].pages) = 1
    /\ Len(invocations[2].pages) = 2
    /\ Len(invocations[1].result[1].features) = 1
    /\ Len(invocations[2].result[1].features) = 2
    /\ provider.searches = 3

(***************************************************************************)
(* C21: the geocode of the sanitized query is the string                   *)
(* '<latitude>,<longitude>,<radius><unit>' of the location when a location *)
(* is present and its radius is > 0, and None otherwise; a location with   *)
(* radius <= 0 counts as no location in the keyword-or-location check: a   *)
(* request with such a location and a blank keyword is refused like one    *)
(* without location.                                                       *)
(***************************************************************************)
C21_Geocode ==
    /\ pc = "sanitized" =>
         Get(tquery).geocode =
            IF query.location # <<>> /\ query.location[1].radius > 0
            THEN <<  <<query.location[1].latitude, ",",
                       query.location[1].longitude, ",",
                       query.location[1].radius, query.location[1].unit>>  >>
            ELSE <<>>
    /\ (/\ pc # "start"
        /\ query.location # <<>>
        /\ query.location[1].radius <= 0
        /\ \A i \in 1..Len(query.keyword) : query.keyword[i] = " "
        /\ query.media \cap {"image", "text"} # {"image"}) =>
            pc = "raised" /\ error = "ValueError"
    /\ (pc # "start" /\ query.location # <<>> /\ query.location[1].radius > 0) =>
            pc = "sanitized"

\* a location of radius 0 came with a keyword: the request sanitizes and
\* has no geocode
C21_Witness ==
    /\ pc = "sanitized"
    /\ query.location # <<>>
    /\ query.location[1].radius = 0
    /\ query.keyword = <<"test">>
    /\ Get(tquery).geocode = None
    /\ Get(tquery).location = query.location

(***************************************************************************)
(* C22: for every query that passes ogre.objects.validate_query and that   *)
(* the sanitizer accepts, the TwitterQuery produced passes                 *)
(* validate_twitter_query: its media are a subset of {image, text}, its    *)
(* geocode is twitter_geocode_from_location(location) when a location is   *)
(* present, and its since_id and max_id are snowflake_id(interval.earliest)*)
(* and snowflake_id(interval.latest) when an interval is present, both     *)
(* None when it is absent.                                                 *)
(***************************************************************************)
C22_SanitizedQueryValid ==
    (pc = "sanitized" /\ objects_validate_query(InHalves(query)) = "ok") =>
        /\ validate_twitter_query(InHalves(Get(tquery))) = "ok"
        /\ Get(tquery).media \subseteq {"image", "text"}
        /\ query.location # <<>> =>
             Get(tquery).geocode =
                 Some(twitter_geocode_from_location(Get(query.location)))
        /\ query.interval # <<>> =>
             /\ Get(tquery).since_id =
                    Some(snowflake_id(Get(query.interval).earliest))
             /\ Get(tquery).max_id =
                    Some(snowflake_id(Get(query.interval).latest))
        /\ query.interval = <<>> =>
             Get(tquery).since_id = None /\ Get(tquery).max_id = None

\* a valid query with all four media, a location and an interval
C22_Witness ==
    /\ pc = "sanitized"
    /\ objects_validate_query(InHalves(query)) = "ok"
    /\ query.media = {"image", "sound", "text", "video"}
    /\ query.location # <<>>
    /\ query.interval # <<>>
    /\ validate_twitter_query(InHalves(Get(tquery))) = "ok"

\* a time of ms whole milliseconds as a timestamp (thirds of a millisecond)
Seconds(ms) == 3 * ms

\* the identifier with its low 22 bits cleared
TickOf(id) == id - (id % Pow2(SNOWFLAKE_SHIFT))

(***************************************************************************)
(* C23: on the millisecond grid the two functions of the codec are         *)
(* inverses of each other: snowflake_id(timestamp_from_snowflake_id(x)) = x*)
(* for every identifier x whose low 22 bits are zero, and                  *)
(* timestamp_from_snowflake_id(snowflake_id(t)) = t for every timestamp    *)
(* t >= 0 that is a whole number of milliseconds; identifiers that differ  *)
(* in their low 22 bits only have the same timestamp.                      *)
(***************************************************************************)
C23_CodecInverse ==
    /\ (pc = "returned" /\ arg.fn = "timestamp_from_snowflake_id") =>
         /\ arg.id % Pow2(SNOWFLAKE_SHIFT) = 0 =>
              snowflake_id(Seconds(Get(result))) = arg.id
         /\ Get(result) = timestamp_from_snowflake_id(TickOf(arg.id))
         /\ snowflake_id(Seconds(Get(result))) = TickOf(arg.id)
    /\ (pc = "returned" /\ arg.fn = "snowflake_id") =>
         /\ Get(result) % Pow2(SNOWFLAKE_SHIFT) = 0
         /\ (arg.timestamp >= 0 /\ arg.timestamp % 3 = 0) =>
              Seconds(timestamp_from_snowflake_id(Get(result))) = arg.timestamp

\* an identifier with all low bits set was decoded: its timestamp is the
\* one of its tick, two milliseconds after the epoch
C23_Witness ==
    /\ pc = "returned"
    /\ arg.fn = "timestamp_from_snowflake_id"
    /\ arg.id = 2 * Pow2(SNOWFLAKE_SHIFT) + (Pow2(SNOWFLAKE_SHIFT) - 1)
    /\ Get(result) = SNOWFLAKE_EPOCH + 2

\* a feature was built: geojson_from_tweet returned
FeatureBuilt == pc = "returned" /\ arg.fn = "geojson_from_tweet"

\* geojson_from_tweet was applied and is over, with a feature or an error
BuilderDone == pc # "start" /\ arg.fn = "geojson_from_tweet"

\* the i-th media entity of the tweet is a photo
IsPhoto(i) == Lower(arg.tweet.entities[i].type) = "photo"

\* images may be fetched: image was requested or strict is off
ImageWanted == "image" \in arg.media \/ ~arg.strict

(***************************************************************************)
(* C24: a Feature has a 'text' property if and only if the text of its     *)
(* record is present and (text is in the media or strict is off); the      *)
(* property is that text.  With strict on and text not requested no        *)
(* Feature carries 'text'.                                                 *)
(***************************************************************************)
C24_TextProperty ==
    FeatureBuilt =>
        /\ "text" \in DOMAIN Get(result).properties <=>
              (arg.tweet.text # <<>> /\ ("text" \in arg.media \/ ~arg.strict))
        /\ "text" \in DOMAIN Get(result).properties =>
              Get(result).properties.text = arg.tweet.text[1]
        /\ (arg.strict /\ "text" \notin arg.media) =>
              "text" \notin DOMAIN Get(result).properties

\* strict is off and only images were requested: the text of the record
\* is in the feature all the same
C24_Witness ==
    /\ FeatureBuilt
    /\ ~arg.strict
    /\ arg.media = {"image"}
    /\ arg.tweet.text # <<>>
    /\ "text" \in DOMAIN Get(result).properties

(***************************************************************************)
(* C25 (as stated): at most one image fetch per record, only when image is *)
(* in the media or strict is off, and the fetch is for the first media     *)
(* entity whose type is 'photo'.  It fails for a record whose first photo  *)
(* carries no URL and is followed by a photo that does: the later one is   *)
(* fetched.                                                                *)
(***************************************************************************)
C25_AsStated ==
    BuilderDone =>
        /\ Len(calls) <= 1
        /\ calls # <<>> =>
             /\ ImageWanted
             /\ \E i \in 1..Len(arg.tweet.entities) :
                  /\ IsPhoto(i)
                  /\ \A j \in 1..(i - 1) : ~IsPhoto(j)
                  /\ arg.tweet.entities[i].media_url = Some(calls[1].url)
        /\ (arg.strict /\ "image" \notin arg.media) => calls = <<>>

(***************************************************************************)
(* C25 (amended): at most one image fetch per record, only when image is   *)
(* in the media or strict is off, and the fetch is for the first media     *)
(* entity whose type is 'photo' and that carries a URL; photos without a   *)
(* URL are passed over, no entity after the fetched one is fetched, and    *)
(* with strict on and image not requested the transport is never called.   *)
(***************************************************************************)
C25_OneImageFetch ==
    BuilderDone =>
        /\ Len(calls) <= 1
        /\ calls # <<>> =>
             /\ ImageWanted
             /\ \E i \in 1..Len(arg.tweet.entities) :
                  /\ IsPhoto(i)
                  /\ arg.tweet.entities[i].media_url = Some(calls[1].url)
                  /\ \A j \in 1..(i - 1) :
                        ~(IsPhoto(j) /\ arg.tweet.entities[j].media_url # <<>>)
        /\ (ImageWanted /\ \E i \in 1..Len(arg.tweet.entities) :
                              IsPhoto(i) /\ arg.tweet.entities[i].media_url # <<>>)
              => calls # <<>>
        /\ (arg.strict /\ "image" \notin arg.media) => calls = <<>>

\* two photos with a URL each: the first one is fetched, the second is not
C25_Witness ==
    /\ FeatureBuilt
    /\ Len(arg.tweet.entities) = 2
    /\ IsPhoto(1) /\ IsPhoto(2)
    /\ arg.tweet.entities[1].media_url # <<>>
    /\ arg.tweet.entities[2].media_url # <<>>
    /\ arg.tweet.entities[1] # arg.tweet.entities[2]
    /\ calls = <<ImageCall(arg.tweet.entities[1].media_url[1], FALSE)>>

(***************************************************************************)
(* C26: a Feature carries an 'image' property only if its record has a     *)
(* media entity of type 'photo'; a record with a text and no photo never   *)
(* yields an 'image' property, strict on or off, whatever the media.       *)
(***************************************************************************)
C26_ImageNeedsPhoto ==
    FeatureBuilt =>
        /\ "image" \in DOMAIN Get(result).properties =>
              /\ \E i \in 1..Len(arg.tweet.entities) : IsPhoto(i)
              /\ calls # <<>>
              /\ Get(result).properties.image = <<"b64", calls[1].url>>
        /\ (\A i \in 1..Len(arg.tweet.entities) : ~IsPhoto(i)) =>
              /\ "image" \notin DOMAIN Get(result).properties
              /\ calls = <<>>

\* a record with a text and a video, images requested and strict off: the
\* feature has the text and no image
C26_Witness ==
    /\ FeatureBuilt
    /\ ~arg.strict
    /\ arg.media = {"image"}
    /\ arg.tweet.text # <<>>
    /\ Len(arg.tweet.entities) = 1
    /\ arg.tweet.entities[1].type = "video"
    /\ "text" \in DOMAIN Get(result).properties
    /\ "image" \notin DOMAIN Get(result).properties

\* the geotagged and identified records of the first n pages, page after
\* page, each page in the order of the provider
RECURSIVE GeotaggedThrough(_)
GeotaggedThrough(n) ==
    IF n = 0 THEN <<>> ELSE GeotaggedThrough(n - 1) \o GeotaggedIn(pages[n])

\* the records the features were built from, in the order of the features
OriginalsInOrder(feats) == [i \in 1..Len(feats) |-> feats[i].properties.original]

(***************************************************************************)
(* C27: the features returned are, in this order, the geotagged and        *)
(* identified records of the first page in the order of the provider, then *)
(* those of the second page, and so on; nothing is removed or reordered,   *)
(* so a record that comes on two pages is in the output twice.             *)
(***************************************************************************)
C27_ProviderOrderKept ==
    pc = "returned" =>
        OriginalsInOrder(result[1].features) = GeotaggedThrough(Len(pages))

\* the first page gave two different records, the second page gave the
\* second of them again: three features, the last two from the same record
C27_Witness ==
    /\ pc = "returned"
    /\ Len(pages) = 2
    /\ Len(result[1].features) = 3
    /\ result[1].features[1].properties.original
         # result[1].features[2].properties.original
    /\ result[1].features[2] = result[1].features[3]
    /\ GeotaggedIn(pages[2]) = <<result[1].features[2].properties.original>>

\* a validator was applied and is over
ValidatorDone(fn) == pc # "start" /\ arg.fn = fn

(***************************************************************************)
(* C28: ogre.objects.validate_interval succeeds exactly for the intervals  *)
(* with 0 <= earliest <= latest: a negative earliest, a negative latest    *)
(* and earliest > latest each make it fail with an AssertionError.         *)
(***************************************************************************)
C28_ValidateInterval ==
    (ValidatorDone("validate_interval") /\ arg.module = "ogre.objects") =>
        /\ pc = "returned" <=>
              (0 <= arg.interval.earliest
                 /\ arg.interval.earliest <= arg.interval.latest)
        /\ pc = "returned" => result = Some("None") /\ error = ""
        /\ pc # "returned" => pc = "raised" /\ error = "AssertionError"
        /\ arg.interval.earliest < 0 => pc = "raised"
        /\ arg.interval.latest < 0 => pc = "raised"
        /\ arg.interval.earliest > arg.interval.latest => pc = "raised"

\* both bounds are positive and in the wrong order
C28_Witness ==
    /\ ValidatorDone("validate_interval")
    /\ arg.module = "ogre.objects"
    /\ arg.interval = [earliest |-> 2, latest |-> 1]
    /\ pc = "raised"
    /\ error = "AssertionError"

(***************************************************************************)
(* C29 (as stated): both validate_location implementations fail for every  *)
(* location whose longitude is outside [-180, 180], whose latitude is      *)
(* outside [-90, 90], whose radius is <= 0 or whose unit is neither km nor *)
(* mi.  It fails for ogre.validation, which accepts a longitude of 181     *)
(* with a valid latitude.                                                  *)
(***************************************************************************)
C29_AsStated ==
    ValidatorDone("validate_location") =>
        /\ (arg.location.longitude < -180 \/ arg.location.longitude > 180) =>
              pc = "raised"
        /\ (arg.location.latitude < -90 \/ arg.location.latitude > 90) =>
              pc = "raised"
        /\ arg.location.radius <= 0 => pc = "raised"
        /\ arg.location.unit \notin {"km", "mi"} => pc = "raised"

\* a location, or an interval, as the data model of the specification has it
LocationInRange(l) ==
    /\ -90 <= l.latitude /\ l.latitude <= 90
    /\ -180 <= l.longitude /\ l.longitude <= 180
    /\ l.radius > 0
    /\ l.unit \in {"km", "mi"}

IntervalInRange(i) == 0 <= i.earliest /\ i.earliest <= i.latest

(***************************************************************************)
(* C30 (as stated): both validate_query implementations fail for every     *)
(* query whose media contain an element outside {image, sound, text,       *)
(* video} and for every query with quantity < 0, and succeed when the      *)
(* media are within that set, quantity >= 0 and location and interval are  *)
(* each absent or valid.  It fails for ogre.validation, which accepts any  *)
(* media, and for ogre.objects on a quantity between -1 and 0.             *)
(***************************************************************************)
C30_AsStated ==
    ValidatorDone("validate_query") =>
        /\ (\E medium \in arg.query.media :
                medium \notin {"image", "sound", "text", "video"}) =>
              pc = "raised"
        /\ arg.query.quantity < 0 => pc = "raised"
        /\ (/\ arg.query.media \subseteq {"image", "sound", "text", "video"}
            /\ arg.query.quantity >= 0
            /\ arg.query.location # <<>> => LocationInRange(arg.query.location[1])
            /\ arg.query.interval # <<>> => IntervalInRange(arg.query.interval[1])) =>
              pc = "returned"

(***************************************************************************)
(* C31.  Whenever ogre.validation.sanitize returns for a request with an   *)
(* interval (so that ogre.validation.validate accepted it), the interval   *)
(* returned holds the same two moments, as floats, in ascending order: the *)
(* pair as given when since <= until, the pair swapped when it was given   *)
(* reversed.  The tuple returned is accepted by validate again, and        *)
(* sanitizing it returns the same interval.                                *)
(***************************************************************************)
SanitizeReturned ==
    /\ arg # <<>>
    /\ arg.fn = "sanitize"
    /\ pc = "returned"
    /\ ~IsNone(arg.request.interval)

C31_SanitizedIntervalAscending ==
    SanitizeReturned =>
        LET given == Get(arg.request.interval)
            clean == Get(Get(result).interval)
        IN  /\ Len(clean) = 2
            /\ clean[1].value <= clean[2].value
            /\ IF given[1].value <= given[2].value
               THEN clean = <<Float(given[1]), Float(given[2])>>
               ELSE clean = <<Float(given[2]), Float(given[1])>>
            /\ validation_validate(Get(result)) = "ok"
            /\ validation_sanitize(Get(result)).interval = Get(result).interval

\* sanitize returned for an interval written as two texts in reverse order
C31_Witness ==
    /\ SanitizeReturned
    /\ Get(arg.request.interval) =
          <<[repr |-> "str", value |-> 2], [repr |-> "str", value |-> 1]>>
    /\ Get(result).interval =
          Some(<<[repr |-> "float", value |-> 1], [repr |-> "float", value |-> 2]>>)

(***************************************************************************)
(* C32.  As stated: OGRe.fetch returns the empty FeatureCollection and     *)
(* invokes no source when media is empty, quantity is 0 or sources is      *)
(* empty; when media is non-empty and quantity > 0, every request that     *)
(* names a source that is not supported fails with ValueError.             *)
(***************************************************************************)
FacadeDone == pc \in {"returned", "raised"}

FacadeRequested ==
    /\ arg # <<>>
    /\ arg.fn = "OGRe.fetch"
    /\ FacadeGuard(arg.media, arg.quantity)

Unsupported(i) == Lower(arg.sources[i]) \notin SOURCE_MAP

\* nothing is asked of any source
NothingToFetch ==
    /\ arg # <<>>
    /\ arg.fn = "OGRe.fetch"
    /\ \/ arg.media = <<>>
       \/ arg.quantity <= 0
       \/ arg.sources = <<>>

FacadeEmptyResult ==
    NothingToFetch =>
        /\ calls = <<>>
        /\ pc # "raised"
        /\ pc = "returned" => result = Some(FeatureCollection(<<>>))

C32_AsStated ==
    /\ FacadeEmptyResult
    /\ (FacadeRequested /\ FacadeDone
          /\ \E i \in 1..Len(arg.sources) : Unsupported(i))
       => pc = "raised" /\ error = "ValueError"

(***************************************************************************)
(* C32, amended.  OGRe.fetch returns the empty FeatureCollection, raises   *)
(* nothing and invokes no source when media is empty, quantity is <= 0 or  *)
(* sources is empty.  When media is non-empty and quantity > 0 and the     *)
(* first name that is not supported stands at position i, fetch never      *)
(* returns and never invokes the source at position i or a later one; it   *)
(* fails with ValueError when the i - 1 sources before it were invoked and *)
(* returned, and with the error of an earlier source (the KeyError of a    *)
(* source the object holds no keys for, or what the source raised)         *)
(* otherwise.                                                              *)
(***************************************************************************)
FirstUnsupported(i) ==
    /\ i \in 1..Len(arg.sources)
    /\ Unsupported(i)
    /\ \A j \in 1..(i - 1) : ~Unsupported(j)

C32_UnsupportedSourceStops ==
    /\ FacadeEmptyResult
    /\ FacadeRequested =>
          \A i \in 1..Len(arg.sources) :
             FirstUnsupported(i) =>
                /\ Len(calls) < i
                /\ pc # "returned"
                /\ pc = "raised" =>
                      IF Len(calls) = i - 1 /\ \A j \in 1..Len(calls) : ~calls[j].failed
                      THEN error = "ValueError"
                      ELSE error \in {"KeyError", "OGReError"}

\* the second name is not supported: the first source was invoked and
\* returned a feature, then fetch failed and the third was never reached
C32_Witness ==
    /\ FacadeRequested
    /\ Len(arg.sources) = 3
    /\ FirstUnsupported(2)
    /\ pc = "raised"
    /\ error = "ValueError"
    /\ calls = <<SourceCall("twitter", FALSE)>>
    /\ features = <<"feature">>

(***************************************************************************)
(* C33 (as stated): when the caller-supplied max_queries is < 1, fetch     *)
(* ends with the empty FeatureCollection returned and no provider call.    *)
(* It fails for a request that sanitization rejects: fetch raises          *)
(* ValueError before it looks at max_queries.                              *)
(***************************************************************************)
C33_AsStated ==
    (Finished /\ max_queries < 1) =>
        /\ result = <<EmptyCollection>>
        /\ NumLimitCalls = 0
        /\ NumSearchCalls = 0

(***************************************************************************)
(* C33 (amended): when max_queries is < 1, fetch never contacts the        *)
(* provider, neither for the limit status nor for a search; it returns     *)
(* exactly the empty FeatureCollection when the request is sanitized, and  *)
(* raises the ValueError of the sanitizer when it is not.                  *)
(***************************************************************************)
C33_NoBudgetNoContact ==
    max_queries < 1 =>
        /\ NumLimitCalls = 0
        /\ NumSearchCalls = 0
        /\ calls = <<>>
        /\ pc \in {"start", "returned", "raised"}
        /\ pc = "returned" =>
              /\ ~SanitizeRaises(query)
              /\ result = <<EmptyCollection>>
              /\ error = ""
        /\ pc = "raised" =>
              /\ SanitizeRaises(query)
              /\ error = "ValueError"
              /\ result = <<>>

\* a request that asks for results, with a page cap of zero, has returned
C33_Witness ==
    /\ pc = "returned"
    /\ max_queries = 0
    /\ query.quantity > 0
    /\ Get(tquery).media # {}
    /\ calls = <<>>
    /\ result = <<EmptyCollection>>

(***************************************************************************)
(* C34: every step of fetch that issues a search call starts in a state    *)
(* where fewer than quantity features are accumulated; hence once a page   *)
(* has brought the accumulated count to quantity or more no search call    *)
(* follows, whatever the response offers and whatever page budget remains. *)
(***************************************************************************)
C34_SearchOnlyWhileShort ==
    [][NumSearchCalls' # NumSearchCalls => Len(features) < query.quantity]_vars

\* the first page filled the quota and offered a next page, page budget
\* remained, and fetch returned after that one search call
C34_Witness ==
    /\ pc = "returned"
    /\ NumSearchCalls = 1
    /\ Len(pages) = 1
    /\ ~IsNone(pages[1].next_results)
    /\ query_count < query_limit
    /\ query.quantity > 0
    /\ Len(features) >= query.quantity

(***************************************************************************)
(* C35: the TwitterQuery of an invocation is the one the sanitizer made of *)
(* the request and never changes, and every search call carries its        *)
(* keyword as q, its geocode and its since_id; a step of the loop changes  *)
(* none of the three, only max_id and count differ between search calls.   *)
(***************************************************************************)
SameButCursorAndCount(c, d) ==
    /\ c.op = d.op
    /\ c.q = d.q
    /\ c.geocode = d.geocode
    /\ c.since_id = d.since_id

C35_SearchParametersFixed ==
    /\ ~IsNone(tquery) => tquery = Some(twitter_query_from_query(query))
    /\ \A i \in 1..Len(calls) :
          IsSearch(calls[i]) =>
             /\ calls[i].q = Get(tquery).keyword
             /\ calls[i].geocode = Get(tquery).geocode
             /\ calls[i].since_id = Get(tquery).since_id
             /\ DOMAIN calls[i] = {"op", "q", "count", "geocode", "since_id", "max_id"}
    /\ \A i, j \in 1..Len(calls) :
          (IsSearch(calls[i]) /\ IsSearch(calls[j])) =>
             SameButCursorAndCount(calls[i], calls[j])

\* two search calls of a request with a location and an interval: the
\* count and the cursor differ, the geocode and the lower bound are those
\* of the sanitized query
C35_Witness ==
    /\ NumSearchCalls = 2
    /\ LET first == SearchCalls[1]
           second == SearchCalls[2]
       IN  /\ first.count # second.count
           /\ first.max_id # second.max_id
           /\ ~IsNone(first.geocode)
           /\ ~IsNone(first.since_id)
           /\ first.since_id # first.max_id
           /\ second.q = Get(tquery).keyword
           /\ second.geocode = Get(tquery).geocode
           /\ second.since_id = Get(tquery).since_id

(***************************************************************************)
(* C36 (as stated): every invocation eventually ends, and the loop makes   *)
(* at most min(remaining, max_queries) iterations.  The bound fails when   *)
(* the provider reports a negative remaining: the loop makes 0 iterations, *)
(* which is more than the minimum.                                         *)
(***************************************************************************)
C36_AsStated ==
    /\ <>Finished
    /\ [](LimitKnown => query_count <= Min(ReportedRemaining, max_queries))

(***************************************************************************)
(* C36 (amended): provided every provider call returns, every invocation   *)
(* of fetch eventually ends: it returns or raises.  Every search call adds *)
(* one to the count of queries whatever the page brings, the count never   *)
(* exceeds max(0, min(remaining, max_queries)), and no search call is made *)
(* before the provider has reported its remaining queries.                 *)
(***************************************************************************)
C36_FetchTerminates ==
    /\ <>Finished
    /\ [](/\ query_count = NumSearchCalls
          /\ LimitKnown =>
                query_count <= Max(0, Min(ReportedRemaining, max_queries))
          /\ ~LimitKnown => query_count = 0)
    /\ [][pages' # pages => query_count' = query_count + 1]_vars

\* the whole budget of two queries was spent on pages that brought nothing
\* usable and offered a next page each, and fetch returned
C36_Witness ==
    /\ pc = "returned"
    /\ LimitKnown
    /\ Min(ReportedRemaining, max_queries) = 2
    /\ query_count = 2
    /\ Len(pages) = 2
    /\ \A i \in 1..2 :
          /\ ~IsNone(pages[i].next_results)
          /\ ~ResponseMalformed(pages[i])
          /\ UsableStatuses(pages[i]) = <<>>
    /\ features = <<>>
    /\ remaining > 0

(***************************************************************************)
(* C37 (as stated): the sanitizer applied to the first five fields of a    *)
(* TwitterQuery it produced returns an equal TwitterQuery, with the same   *)
(* media, keyword, geocode, since_id and max_id.  It fails when exactly    *)
(* one of image and text was requested: the hint is appended to a keyword  *)
(* that carries it already.                                                *)
(***************************************************************************)
C37_AsStated ==
    /\ (pc = "raised" => tquery = None)
    /\ (pc = "resanitized" =>
          /\ Get(result) = Get(tquery)
          /\ Get(result).keyword = Get(tquery).keyword)

(***************************************************************************)
(* C38 (as stated): a request whose interval has earliest <= latest is     *)
(* sanitized to since_id <= max_id, and one whose interval has             *)
(* earliest > latest to since_id > max_id.  The second half fails for two  *)
(* moments that round to the same millisecond: the identifiers are equal.  *)
(***************************************************************************)
Earliest == Get(query.interval).earliest
Latest == Get(query.interval).latest

C38_AsStated ==
    (~IsNone(tquery) /\ ~IsNone(query.interval)) =>
        /\ Earliest <= Latest => Get(Get(tquery).since_id) <= Get(Get(tquery).max_id)
        /\ Earliest > Latest => Get(Get(tquery).since_id) > Get(Get(tquery).max_id)

(***************************************************************************)
(* C38 (amended): snowflake_id is monotonically non-decreasing in its      *)
(* timestamp, so a request with earliest <= latest is sanitized to         *)
(* since_id <= max_id.  The sanitizer does not reorder the bounds: since_id*)
(* is the identifier of earliest and max_id that of latest, so an interval *)
(* with earliest > latest yields since_id >= max_id, with since_id > max_id*)
(* exactly when the two moments round to different milliseconds; every     *)
(* search call carries that since_id and the first one carries that max_id.*)
(***************************************************************************)
C38_BoundsNotReordered ==
    /\ \A a, b \in IntervalMoments :
          a <= b => snowflake_id(a) <= snowflake_id(b)
    /\ (~IsNone(tquery) /\ ~IsNone(query.interval)) =>
          LET since == Get(Get(tquery).since_id)
              until == Get(Get(tquery).max_id)
          IN  /\ since = snowflake_id(Earliest)
              /\ until = snowflake_id(Latest)
              /\ Earliest <= Latest => since <= until
              /\ Earliest > Latest => since >= until
              /\ Earliest > Latest =>
                    (since > until <=> RoundMs(Earliest) > RoundMs(Latest))
              /\ \A i \in 1..NumSearchCalls :
                    SearchCalls[i].since_id = Some(since)
              /\ NumSearchCalls >= 1 => SearchCalls[1].max_id = Some(until)

\* a search call for an interval given in reverse: its lower bound is above
\* its upper bound
C38_Witness ==
    /\ NumSearchCalls >= 1
    /\ Earliest > Latest
    /\ Get(SearchCalls[1].since_id) > Get(SearchCalls[1].max_id)
    /\ SearchCalls[1].since_id = Some(snowflake_id(Earliest))

=============================================================================
